---- MODULE Spec2Model ----
(***************************************************************************)
(* Verification model of the Sidr tree engine (yusuf-wadi/sidr):           *)
(*   - the Tree Stage Classifier          (src/utils/treeLogic.js)         *)
(*   - the Growth Parameter Model and the Branch Generator                 *)
(*                                        (src/utils/treeGen.js)           *)
(*   - the Scene Composer / render loop   (src/unnamed/part_000, the       *)
(*                                         TreeScene component)            *)
(*   - the day-aware progress reducer     (src/utils/treeLogic.js, lines   *)
(*                                         117-396: the AppProvider)       *)
(* Each part has its own specification (SpecStage, SpecScene, SpecTree,    *)
(* SpecApp); SpecCalls calls the pure functions of the three files         *)
(* directly.  The variables of the other parts stay at their idle values.  *)
(***************************************************************************)
EXTENDS Integers, Sequences, FiniteSets, TLC

VARIABLES
    \* ---- Tree Stage Classifier: arguments and returned values
    totalPages,     \* argument totalPages of getTreeStage / getProgressToNextStage
    khatms,         \* argument khatms
    stageOut,       \* value returned by getTreeStage (an index into TREE_STAGES), 0 = not called
    progressOut     \* value returned by getProgressToNextStage, <<num, den>>; <<>> = not called

stageVars == <<totalPages, khatms, stageOut, progressOut>>

VARIABLES
    \* ---- TreeScene component (Scene Composer): props, environment, refs
    mounted,        \* the component is mounted (the unmount cleanup has not run)
    state,          \* prop state: the EngagementSnapshot
    overrideGrowth, \* prop overrideGrowth: <<>> (null) or <<GrowthParameters>>
    timeOverride,   \* prop timeOverride: <<>> (null) or <<hour>>, in 1/100 hour
    clock,          \* wall clock (new Date()), in 1/100 hour
    sceneRef,       \* sceneRef.current: <<>> or <<set of <<kind, id>> objects>>
    rendererRef,    \* rendererRef.current is set
    hemiRef,        \* hemiRef.current is set
    appliedSky,     \* <<>> or <<sky>>: the sky config last applied to renderer/lights
    treeRef,        \* treeRef.current: <<>> or <<[id, params]>>
    gardenRef,      \* gardenRef.current: <<>> or <<[id, level, vibrancy]>>
    badgesRef,      \* badgesRef.current: <<>> or <<[id, count]>>
    starsRef,       \* starsRef.current: <<>> or <<id>>
    firefliesRef,   \* firefliesRef.current: <<>> or <<id>>
    fireflyDataRef, \* fireflyDataRef.current: <<>> or <<n>>, the data being buildFireflies(n)
    ffLightsRef,    \* ffLightsRef.current: <<>> or <<sequence of [id, position, intensity]>>
    sunLightRef,    \* sunLightRef.current is set
    fillRef,        \* fillRef.current is set
    timeRef,        \* timeRef.current, in animation steps (see AnimationTimes)
    initError,      \* <<>> or <<step>>: the init error onContextCreate caught and logged
    uncaught,       \* an exception left an effect uncaught
    rafRef,         \* rafRef.current: <<>> or <<handle>>
    rafPending,     \* the frame callback the host has scheduled: <<>> or <<handle>>
    sinceRender,    \* ts - lastRender of the next frame callback so far, in ms (capped)
    renderGap,      \* ts - lastRender at the test of line 521 in the latest frame
                    \* callback that went on to render, in ms (capped); 0 before it
    framesAfterUnmount \* frame callbacks that ran after the unmount cleanup (0 or 1)

sceneVars == <<mounted, state, overrideGrowth, timeOverride, clock, sceneRef,
               rendererRef, hemiRef, appliedSky, treeRef, gardenRef, badgesRef,
               starsRef, firefliesRef, fireflyDataRef, ffLightsRef, sunLightRef,
               fillRef, timeRef, initError, uncaught, rafRef,
               rafPending, sinceRender, renderGap, framesAfterUnmount>>

VARIABLES
    \* ---- buildTree (Branch Generator): arguments, locals and returned group
    input,          \* the call: [state, overrideGrowth, lowY]; <<>> when not in use
    run,            \* number of the buildTree call on this input (1 or 2)
    pc,             \* position in buildTree: "idle", "loop", "after", "returned", "diverged"
    params,         \* const params (line 300); <<>> before the call
    rand,           \* the state s of the closure mulberry32(params.seed || 42), <<hi, lo>>
    queue,          \* const queue: sequence of [origin, direction, length, radius, level]
    maxLevel,       \* const maxLevel (line 349)
    fractionalLevel,\* const fractionalLevel (line 350), a JS number
    safetyIter,     \* let safetyIter (line 352)
    group,          \* the THREE.Group under construction: its children by kind
    terminalTips,   \* const terminalTips: indexes into group.meshes
    first           \* <<>> or <<[params, group, terminalTips]>>: what call 1 returned

treeVars == <<input, run, pc, params, rand, queue, maxLevel, fractionalLevel,
              safetyIter, group, terminalTips, first>>

VARIABLES
    \* ---- direct calls of the exported pure functions (computeGrowth,
    \*      getTimeOfDayConfig, buildGarden, buildBadgeMarkers)
    fn,             \* name of the function called; "" when not in use
    args,           \* the arguments of the successive calls, one entry per call
    rets            \* what the calls made so far returned (or threw), in order

callVars == <<fn, args, rets>>

VARIABLES
    \* ---- AppProvider (the day-aware reducer appended to treeLogic.js)
    appState,       \* the state of useReducer(appReducer, ...); <<>> when not in use
    today           \* the calendar day of new Date(), a day number; 0 when not in use

appVars == <<appState, today>>

vars == <<stageVars, sceneVars, treeVars, callVars, appVars>>

(***************************************************************************)
(* Bounds of the model                                                     *)
(***************************************************************************)
MaxPages  == 610    \* getTreeStage arguments: totalPages in 0..MaxPages
MaxKhatms == 11     \* getTreeStage arguments: khatms in 0..MaxKhatms

(***************************************************************************)
(* Rationals <<num, den>> stand for the JavaScript numbers the code        *)
(* computes by division; den > 0.                                          *)
(***************************************************************************)
RLe(a, b) == a[1] * b[2] <= b[1] * a[2]
RLt(a, b) == a[1] * b[2] <  b[1] * a[2]
REq(a, b) == a[1] * b[2] =  b[1] * a[2]
\* the element of a one-element set: The({ e(x) : x \in {v} }) is e(v), with v
\* computed once
The(S) == CHOOSE x \in S : TRUE

\* a <= b and a < b for non-negative rationals with large terms: the integer
\* parts are compared, then the reciprocals of the fractional parts, so that no
\* product is formed
RECURSIVE Leq(_, _)
Leq(a, b) ==
    LET qa == a[1] \div a[2]
        ra == a[1] % a[2]
        qb == b[1] \div b[2]
        rb == b[1] % b[2]
    IN  IF qa # qb THEN qa < qb
        ELSE IF ra = 0 THEN TRUE
        ELSE IF rb = 0 THEN FALSE
        ELSE Leq(<<b[2], rb>>, <<a[2], ra>>)
Less(a, b) == ~Leq(b, a)
\* Math.min(x, 1)
MathMin1(x) == IF RLe(x, <<1, 1>>) THEN x ELSE <<1, 1>>

(***************************************************************************)
(* treeLogic.js : TREE_STAGES, getTreeStage, getProgressToNextStage        *)
(***************************************************************************)
TREE_STAGES ==
    << [stage |-> "seed",        minPages |-> 0,   minKhatms |-> 0],
       [stage |-> "sprout",      minPages |-> 20,  minKhatms |-> 0],
       [stage |-> "youngTree",   minPages |-> 100, minKhatms |-> 0],
       [stage |-> "fullBloom",   minPages |-> 604, minKhatms |-> 3],
       [stage |-> "ancientTree", minPages |-> 604, minKhatms |-> 10] >>

\* the test of the loop body: totalPages >= stage.minPages && khatms >= stage.minKhatms
Qualifies(i, p, k) ==
    p >= TREE_STAGES[i].minPages /\ k >= TREE_STAGES[i].minKhatms

\* the for-of loop of getTreeStage from position i on, `current` being the
\* index kept so far
RECURSIVE StageLoop(_, _, _, _)
StageLoop(i, current, p, k) ==
    IF i > Len(TREE_STAGES) THEN current
    ELSE StageLoop(i + 1, IF Qualifies(i, p, k) THEN i ELSE current, p, k)

\* mutant: the loop stops at the first stage that qualifies
RECURSIVE StageLoopFirst(_, _, _, _)
StageLoopFirst(i, current, p, k) ==
    IF i > Len(TREE_STAGES) THEN current
    ELSE IF Qualifies(i, p, k) THEN i
    ELSE StageLoopFirst(i + 1, current, p, k)

getTreeStage_first(p, k) == StageLoopFirst(1, 1, p, k)

\* getTreeStage: the index (1-based) of the returned TREE_STAGES entry
getTreeStage(p, k) == StageLoop(1, 1, p, k)

\* TREE_STAGES.findIndex(s => s.stage === currentStage.stage), 1-based
FindIndex(name) ==
    CHOOSE i \in 1..Len(TREE_STAGES) :
        /\ TREE_STAGES[i].stage = name
        /\ \A j \in 1..(i - 1) : TREE_STAGES[j].stage # name

\* mutant: the operands of the two subtractions are swapped
getProgressToNextStage_swapped(p, k) ==
    LET currentStage == TREE_STAGES[getTreeStage(p, k)]
        currentIndex == FindIndex(currentStage.stage)
    IN  IF currentIndex = Len(TREE_STAGES) THEN <<1, 1>>
        ELSE LET next == TREE_STAGES[currentIndex + 1]
                 prevPages == currentStage.minPages
                 nextPages == next.minPages
             IN  IF next.minKhatms > k
                 THEN MathMin1(<<currentStage.minKhatms - k,
                                 next.minKhatms - currentStage.minKhatms>>)
                 ELSE IF nextPages = prevPages THEN <<1, 1>>
                 ELSE MathMin1(<<prevPages - p, nextPages - prevPages>>)

getProgressToNextStage(p, k) ==
    LET currentStage == TREE_STAGES[getTreeStage(p, k)]
        currentIndex == FindIndex(currentStage.stage)
    IN  IF currentIndex = Len(TREE_STAGES) THEN <<1, 1>>
        ELSE LET next == TREE_STAGES[currentIndex + 1]
                 prevPages == currentStage.minPages
                 nextPages == next.minPages
             IN  IF next.minKhatms > k
                 THEN MathMin1(<<k - currentStage.minKhatms,
                                 next.minKhatms - currentStage.minKhatms>>)
                 ELSE IF nextPages = prevPages THEN <<1, 1>>
                 ELSE MathMin1(<<p - prevPages, nextPages - prevPages>>)

StageIdle ==
    /\ totalPages = 0 /\ khatms = 0 /\ stageOut = 0 /\ progressOut = <<>>

NoGroup == [ground |-> FALSE, seed |-> FALSE, meshes |-> <<>>, leaves |-> <<>>,
            blooms |-> <<>>, fruits |-> <<>>]

TreeIdle ==
    /\ input = <<>> /\ run = 0 /\ pc = "idle" /\ params = <<>>
    /\ rand = <<0, 0>> /\ queue = <<>>
    /\ maxLevel = 0 /\ fractionalLevel = <<0, 1>> /\ safetyIter = 0
    /\ group = NoGroup /\ terminalTips = <<>> /\ first = <<>>

CallsIdle ==
    /\ fn = "" /\ args = <<>> /\ rets = <<>>

AppIdle ==
    /\ appState = <<>> /\ today = 0

\* QURAN_PAGES and getKhatmCount
QURAN_PAGES == 604
getKhatmCount(pages) == pages \div QURAN_PAGES

(***************************************************************************)
(* Exact arithmetic on rationals <<num, den>>, den > 0, kept in lowest     *)
(* terms: the model of the floating-point arithmetic of computeGrowth.     *)
(***************************************************************************)
Abs(x) == IF x < 0 THEN -x ELSE x

RECURSIVE GCD(_, _)
GCD(a, b) == IF b = 0 THEN a ELSE GCD(b, a % b)

RNorm(r) ==
    LET g == GCD(Abs(r[1]), r[2])
    IN  IF g = 0 THEN r ELSE <<r[1] \div g, r[2] \div g>>

RInt(n)    == <<n, 1>>
RAdd(a, b) == RNorm(<<a[1] * b[2] + b[1] * a[2], a[2] * b[2]>>)
RSub(a, b) == RNorm(<<a[1] * b[2] - b[1] * a[2], a[2] * b[2]>>)
RMul(a, b) == RNorm(<<a[1] * b[1], a[2] * b[2]>>)
\* mutant: a value above the cap wraps around instead of being clamped
RMin_wrap(a, b) == IF RLe(a, b) THEN a ELSE RSub(a, b)
\* Math.min(a, b), Math.max(a, b)
RMin(a, b) == IF RLe(a, b) THEN a ELSE b
RMax(a, b) == IF RLe(a, b) THEN b ELSE a
\* a decimal literal of the source, e.g. 0.28 = Dec(28, 100)
Dec(n, d)  == RNorm(<<n, d>>)

(***************************************************************************)
(* treeGen.js : computeGrowth                                              *)
(* A memo is a function from surah ids to entries; an entry is <<>> (null) *)
(* or <<[status, versesMemorized, verseConfidence]>> where versesMemorized *)
(* is the set of verse numbers of the legacy array and verseConfidence is  *)
(* <<>> (absent) or <<set of <<verse, confidence>> pairs>>.                *)
(***************************************************************************)
RECURSIVE SortedKeys(_)
\* Object.keys / Object.entries order of integer-like keys: ascending
SortedKeys(S) ==
    IF S = {} THEN <<>>
    ELSE LET m == CHOOSE x \in S : \A y \in S : x <= y
         IN  <<m>> \o SortedKeys(S \ {m})

\* lines 53-55: the verses counted as memorized
goodCount(entry) ==
    IF entry.verseConfidence # <<>>
    THEN Cardinality({c \in entry.verseConfidence[1] : c[2] = "good"})
    ELSE Cardinality(entry.versesMemorized)

\* mutant: decayed entries are not skipped
RECURSIVE FruitLoop_keepDecayed(_, _)
FruitLoop_keepDecayed(memo, keys) ==
    IF keys = <<>> THEN <<>>
    ELSE LET surahId == Head(keys)
             e == memo[surahId]
         IN  IF e = <<>>
             THEN FruitLoop_keepDecayed(memo, Tail(keys))
             ELSE <<[surahId |-> surahId,
                     progress |-> goodCount(e[1]),
                     status |-> e[1].status]>> \o FruitLoop_keepDecayed(memo, Tail(keys))

\* lines 49-61: the loop over Object.entries(memo)
RECURSIVE FruitLoop(_, _)
FruitLoop(memo, keys) ==
    IF keys = <<>> THEN <<>>
    ELSE LET surahId == Head(keys)
             e == memo[surahId]
         IN  IF e = <<>> \/ e[1].status = "decayed"
             THEN FruitLoop(memo, Tail(keys))
             ELSE <<[surahId |-> surahId,
                     progress |-> goodCount(e[1]),
                     status |-> e[1].status]>> \o FruitLoop(memo, Tail(keys))

computeGrowth(st) ==
    LET pageNorm   == RMin(RNorm(<<st.totalPages, 604>>), RInt(1))
        minuteNorm == RMin(RNorm(<<st.totalMinutes, 600>>), RInt(1))
        streakNorm == RMin(RNorm(<<st.dayStreak, 30>>), RInt(1))
        khatmNorm  == RMin(RNorm(<<st.khatms, 10>>), RInt(1))
        growth     == RAdd(RMul(pageNorm, Dec(6, 10)), RMul(khatmNorm, Dec(4, 10)))
    IN  [ growth          |-> growth,
          trunkLength     |-> RAdd(Dec(3, 10), RMul(growth, Dec(22, 10))),
          trunkRadius     |-> RAdd(Dec(2, 100), RMul(growth, Dec(28, 100))),
          levels          |-> RMul(growth, RInt(4)),
          childrenPerNode |-> RAdd(Dec(15, 10), RMul(growth, Dec(25, 10))),
          branchAngle     |-> RAdd(Dec(5, 10), RMul(growth, Dec(3, 10))),
          lengthFalloff   |-> RAdd(Dec(55, 100), RMul(growth, Dec(1, 10))),
          radiusFalloff   |-> RAdd(Dec(45, 100), RMul(growth, Dec(1, 10))),
          taper           |-> RAdd(Dec(6, 10), RMul(growth, Dec(25, 100))),
          gnarliness      |-> RAdd(Dec(3, 100), RMul(RSub(RInt(1), growth), Dec(4, 100))),
          twist           |-> RAdd(Dec(15, 100), RMul(growth, Dec(15, 100))),
          leafDensity     |-> RAdd(RMul(minuteNorm, Dec(7, 10)), RMul(pageNorm, Dec(3, 10))),
          leafSize        |-> RAdd(Dec(6, 100), RMul(growth, Dec(12, 100))),
          vibrancy        |-> RAdd(Dec(3, 10), RMul(streakNorm, Dec(7, 10))),
          hasBloom        |-> st.khatms >= 1,
          bloomIntensity  |-> khatmNorm,
          fruits          |-> FruitLoop(st.memo, SortedKeys(DOMAIN st.memo)),
          \* Math.floor(totalPages * 0.1 + khatms * 1000)
          seed            |-> (st.totalPages \div 10) + st.khatms * 1000 ]

(***************************************************************************)
(* HomeScreen.jsx : the developer override built from the slider value g   *)
(* (it has no fruits field: buildTree reads params.fruits || []).          *)
(***************************************************************************)
DevOverride(g) ==
    [ growth          |-> g,
      trunkLength     |-> RAdd(Dec(3, 10), RMul(g, Dec(22, 10))),
      trunkRadius     |-> RAdd(Dec(2, 100), RMul(g, Dec(28, 100))),
      levels          |-> RMul(g, RInt(4)),
      childrenPerNode |-> RAdd(Dec(15, 10), RMul(g, Dec(25, 10))),
      branchAngle     |-> RAdd(Dec(5, 10), RMul(g, Dec(3, 10))),
      lengthFalloff   |-> RAdd(Dec(55, 100), RMul(g, Dec(1, 10))),
      radiusFalloff   |-> RAdd(Dec(45, 100), RMul(g, Dec(1, 10))),
      taper           |-> RAdd(Dec(6, 10), RMul(g, Dec(25, 100))),
      gnarliness      |-> RAdd(Dec(3, 100), RMul(RSub(RInt(1), g), Dec(4, 100))),
      twist           |-> RAdd(Dec(15, 100), RMul(g, Dec(15, 100))),
      leafDensity     |-> g,
      leafSize        |-> RAdd(Dec(6, 100), RMul(g, Dec(12, 100))),
      vibrancy        |-> RAdd(Dec(3, 10), RMul(g, Dec(7, 10))),
      hasBloom        |-> RLt(Dec(3, 10), g),
      bloomIntensity  |-> RMax(RInt(0), RMul(RSub(g, Dec(3, 10)), Dec(10, 7))),
      fruits          |-> <<>>,
      \* Math.floor(g * 10000)
      seed            |-> (g[1] * 10000) \div g[2] ]

(***************************************************************************)
(* part_000 (components/TreeScene): factories used by the Scene Composer.  *)
(* Hours are in 1/100 hour (6 h = 600, 19.5 h = 1950).                      *)
(***************************************************************************)
\* a row of TIME_KEYS: [h, sky, horizon, skyHemi, groundHemi, ambI, sunCol, sunI];
\* the hour in 1/100 hour, the colours as the integers of the hex literals and
\* the two intensities in 1/100
Key(h, sky, horizon, skyHemi, groundHemi, ambI, sunCol, sunI) ==
    <<h, sky, horizon, skyHemi, groundHemi, Dec(ambI, 100), sunCol, Dec(sunI, 100)>>

\* lines 25-37, rows 1..10 for the source's indexes 0..9 (a row's fields 1..8
\* for the source's 0..7)
TIME_KEYS == <<
    Key(   0,   396314,  1185838,  1712709,   658968,  12, 13162751,   8),
    Key( 500,  1838642,  3806533,  2430272,  1182240,  18, 16759688,  14),
    Key( 600,  4005728, 14710864,  4859984,  2756624,  28, 16764032,  52),
    Key( 700,  5148364, 15256720, 12630160,  4008735,  45, 16773312,  82),
    Key(1000,  2259148, 10017525, 11062510,  4008735,  55, 16777205,  95),
    Key(1300,  1601736,  8966384, 10537192,  4008735,  60, 16777215, 100),
    Key(1700,  2779320, 10537192, 11061472,  4008735,  55, 16775376,  85),
    Key(1900,  2758744, 14708800,  4859968,  1705992,  30, 16750912,  50),
    Key(2000,  1051688,  1840184,  1578544,   525840,  16, 16767104,  16),
    Key(2400,   396314,  1185838,  1712709,   658968,  12, 13162751,   8) >>

\* new THREE.Color(hex): the channels r, g, b of the literal, in 1/255
Color(hex) == <<RInt((hex \div 65536) % 256), RInt((hex \div 256) % 256), RInt(hex % 256)>>

\* mutant: the interpolation eases in (t * t)
lf_eased(x, y, t) == RAdd(x, RMul(RSub(y, x), RMul(t, t)))
\* line 51: lf = a[i] + (b[i] - a[i]) * t
lf(x, y, t) == RAdd(x, RMul(RSub(y, x), t))
\* line 50: lc = new THREE.Color(a[i]).lerp(new THREE.Color(b[i]), t), which is
\* this.r += (color.r - this.r) * t for each channel
lc(x, y, t) == [c \in 1..3 |-> lf(Color(x)[c], Color(y)[c], t)]

RECURSIVE KeyLoop(_, _)
\* lines 43-48: the first i with TIME_KEYS[i][0] <= hour < TIME_KEYS[i + 1][0];
\* a, b stay TIME_KEYS[0], TIME_KEYS[1] when the loop finds none
KeyLoop(hour, i) ==
    IF i > Len(TIME_KEYS) - 1 THEN 1
    ELSE IF hour >= TIME_KEYS[i][1] /\ hour < TIME_KEYS[i + 1][1] THEN i
    ELSE KeyLoop(hour, i + 1)

\* mutant: 6:00 itself still counts as night
isNight_inclusive(hour) == hour <= 600 \/ hour >= 1950
\* line 53
isNight(hour) == hour < 600 \/ hour >= 1950

\* lines 54-63: the angle of the sun or moon on its arc, as a fraction of pi, and
\* the factor of the arc's height (the position is (-cos(ang) * R,
\* sin(ang) * R * factor, -1.5) with R = 11)
bodyPos(hour) ==
    IF ~isNight(hour)
    THEN [ang |-> RMax(RInt(0), RMin(RInt(1), RNorm(<<hour - 600, 1300>>))),
          factor |-> Dec(9, 10)]
    ELSE LET mh == IF hour >= 1950 THEN hour - 1950 ELSE hour + 450
         IN  [ang |-> RMax(RInt(0), RMin(RInt(1), RNorm(<<mh, 1000>>))),
              factor |-> Dec(75, 100)]

\* getTimeOfDayConfig(overrideHour), lines 39-76; now is the wall clock's
\* getHours() + getMinutes() / 60.  hour is the local of line 41.
getTimeOfDayConfig(override, now) ==
    The({ The({ The({
        [ hour             |-> hour,
          bgColor          |-> lc(TIME_KEYS[i][2], TIME_KEYS[i + 1][2], t),
          fogColor         |-> lc(TIME_KEYS[i][3], TIME_KEYS[i + 1][3], t),
          skyHemi          |-> lc(TIME_KEYS[i][4], TIME_KEYS[i + 1][4], t),
          groundHemi       |-> lc(TIME_KEYS[i][5], TIME_KEYS[i + 1][5], t),
          ambientIntensity |-> lf(TIME_KEYS[i][6], TIME_KEYS[i + 1][6], t),
          sunColor         |-> lc(TIME_KEYS[i][7], TIME_KEYS[i + 1][7], t),
          sunIntensity     |-> lf(TIME_KEYS[i][8], TIME_KEYS[i + 1][8], t),
          bodyPos          |-> bodyPos(hour),
          isNight          |-> isNight(hour) ]
        \* line 49, with a = TIME_KEYS[i] and b = TIME_KEYS[i + 1]
        : t \in {IF TIME_KEYS[i + 1][1] = TIME_KEYS[i][1] THEN RInt(0)
                 ELSE RNorm(<<hour - TIME_KEYS[i][1],
                              TIME_KEYS[i + 1][1] - TIME_KEYS[i][1]>>)} })
        : i \in {KeyLoop(hour, 1)} })
        : hour \in {IF override # <<>> THEN override[1] % 2400 ELSE now} })

\* mutant: the second threshold is 90 minutes instead of 120
buildGarden_early(minutes, dayStreak) ==
    LET level == IF minutes >= 600 THEN 4
                 ELSE IF minutes >= 300 THEN 3
                 ELSE IF minutes >= 90 THEN 2
                 ELSE IF minutes >= 30 THEN 1 ELSE 0
    IN  [level |-> level,
         vibrancy |-> IF level = 0 THEN RInt(0)
                      ELSE RMin(RInt(1), RNorm(<<dayStreak, 30>>))]

\* buildGarden, lines 179-186: the minutes level and the streak vibrancy (which
\* sets the colour of the grass and shrub materials)
buildGarden(minutes, dayStreak) ==
    LET level == IF minutes >= 600 THEN 4
                 ELSE IF minutes >= 300 THEN 3
                 ELSE IF minutes >= 120 THEN 2
                 ELSE IF minutes >= 30 THEN 1 ELSE 0
    IN  [level |-> level,
         vibrancy |-> IF level = 0 THEN RInt(0)
                      ELSE RMin(RInt(1), RNorm(<<dayStreak, 30>>))]

\* buildBadgeMarkers: count = Math.min(khatms || 0, 12) stones
buildBadgeMarkers(k) == [count |-> IF k <= 12 THEN k ELSE 12]

FF_LIGHT_COUNT == 6

\* buildFireflies(count = 20), line 338
FF_COUNT == 20

(***************************************************************************)
(* The animation clock. The loop adds 0.008 to timeRef.current per         *)
(* rendered frame (line 524); the model samples the clock every 2.5 turns  *)
(* of the angle t * speed of a firefly of speed 1, so that every angle the *)
(* loop takes the sine of is a whole number of quarter turns (t * speed is *)
(* 10 of them per step, t * 1.8 * speed is 18, t * speed * 0.6 is 6 and    *)
(* t * speed * 0.4 is 4) and the sampled clock has period 2.               *)
(***************************************************************************)
AnimationTimes == {0, 1}
NextTime(t) == (t + 1) % Cardinality(AnimationTimes)

\* Math.sin of k quarter turns, in 1/100
SinQ(k) ==
    CASE k % 4 = 0 -> 0
      [] k % 4 = 1 -> 100
      [] k % 4 = 2 -> 0
      [] OTHER     -> -100

\* what Math.random() may return during one call of buildFireflies: two samples
FireflySamples == {1, 2}

\* buildFireflies, lines 338-381: the data it returns when Math.random() gives
\* sample n, one record per firefly: base positions in 1/100, the phases in
\* quarter turns (py = phase + 1.1 and pz = phase + 2.3 rounded to 1 and 2
\* quarter turns), speed 1 or 2, blinkPhase any quarter turn
buildFireflies(n) ==
    [i \in 1..FF_COUNT |->
        [bx |-> 50 * ((i + n) % 5) - 100,
         by |-> 20 + 50 * (i % 7),
         bz |-> 50 * ((i * n) % 5) - 100,
         px |-> (i + n) % 4,
         py |-> ((i + n) % 4) + 1,
         pz |-> ((i + n) % 4) + 2,
         speed |-> 1 + ((i + n) % 2),
         blinkPhase |-> (i * n + (i \div 2)) % 4]]

\* lines 560-562: the position the loop gives firefly d at time t, in 1/100
FireflyPos(d, t) ==
    <<d.bx + (45 * SinQ(10 * t * d.speed + d.px)) \div 100,
      d.by + (28 * SinQ(6 * t * d.speed + d.py)) \div 100,
      d.bz + (45 * SinQ(4 * t * d.speed + d.pz)) \div 100>>

\* mutant: the sine is not clamped at 0
blink_unclamped(d, t) == SinQ(18 * t * d.speed + d.blinkPhase)

\* line 566: const blink = Math.max(0, Math.sin(t * 1.8 * d.speed + d.blinkPhase)),
\* in 1/100
blink(d, t) ==
    LET s == SinQ(18 * t * d.speed + d.blinkPhase)
    IN  IF 0 >= s THEN 0 ELSE s

\* lines 572-575: the first FF_LIGHT_COUNT fireflies drive the point lights ls;
\* intensity = 0.45 * blink, in 1/100
SyncLights(ls, data, t) ==
    [i \in 1..Len(ls) |->
        IF i <= FF_LIGHT_COUNT /\ i <= Len(data)
        THEN [ls[i] EXCEPT !.position = FireflyPos(data[i], t),
                           !.intensity = (45 * blink(data[i], t)) \div 100]
        ELSE ls[i]]

\* memoSig, lines 424-429: per key  k:length:status  joined by ','
memoSig(memo) ==
    LET keys == SortedKeys(DOMAIN memo)
    IN  [i \in 1..Len(keys) |->
            LET e == memo[keys[i]]
            IN  <<keys[i],
                  IF e # <<>> THEN Cardinality(e[1].versesMemorized) ELSE 0,
                  IF e # <<>> THEN e[1].status ELSE "">>]

\* stateKey, lines 431-433
stateKey(st, og) ==
    IF og # <<>>
    THEN [json |-> og, tpl |-> <<>>]
    ELSE [json |-> <<>>,
          tpl |-> <<st.totalPages, st.khatms, st.totalMinutes, st.dayStreak,
                    memoSig(st.memo)>>]

\* buildTree(state, overrideGrowth), line 300: the parameters the tree is built from
TreeParams(st, og) == IF og # <<>> THEN og[1] ELSE computeGrowth(st)

(***************************************************************************)
(* The scene graph: a set of <<kind, id>> objects. A new object of a kind  *)
(* is none of the objects in the scene and not the object `old` (<<>> or   *)
(* <<id>>) that the ref of that kind still points to: it gets the smallest *)
(* id that is free.                                                        *)
(***************************************************************************)
SceneIds(sc, kind) == {o[2] : o \in {x \in sc : x[1] = kind}}

FreshId(sc, kind, old) ==
    LET used == SceneIds(sc, kind) \cup {old[i] : i \in 1..Len(old)}
    IN  CHOOSE i \in 1..(Cardinality(used) + 1) :
            i \notin used /\ \A j \in 1..(i - 1) : j \in used

\* mutant: remove leaves the object in the scene
SceneRemove_noop(sc, kind, id) == sc

\* scene.add(obj), scene.remove(obj)
SceneAdd(sc, kind, id)    == sc \cup {<<kind, id>>}
SceneRemove(sc, kind, id) == sc \ {<<kind, id>>}

\* the objects of one kind in the scene
Count(sc, kind) == Cardinality({o \in sc : o[1] = kind})

\* lights.forEach(l => scene.add(l)) / scene.remove(l)
AddLights(sc)        == sc \cup {<<"ffLight", i>> : i \in 1..FF_LIGHT_COUNT}
RemoveLights(sc, ls) == sc \ {<<"ffLight", ls[i].id>> : i \in 1..Len(ls)}

\* buildFireflyLights, lines 389-396: FF_LIGHT_COUNT point lights of intensity
\* 0.0 (in 1/100) at the default position
buildFireflyLights ==
    [i \in 1..FF_LIGHT_COUNT |-> [id |-> i, position |-> <<0, 0, 0>>, intensity |-> 0]]

(***************************************************************************)
(* The rebuild effect, lines 591-614, run with the props of the render     *)
(* (st, og). refs is the record of the refs it reads and writes.           *)
(* The body is inside try/catch; on the props explored here (snapshots     *)
(* with a memo object, the slider's override) buildTree, buildGarden and   *)
(* buildBadgeMarkers return, so the catch branch is not taken.             *)
(***************************************************************************)
RebuildEffect(st, og, refs) ==
    IF refs.scene = <<>> \/ refs.tree = <<>> THEN refs
    ELSE
      LET sc0    == refs.scene[1]
          sc1    == SceneRemove(sc0, "tree", refs.tree[1].id)
          tid    == FreshId(sc1, "tree", <<refs.tree[1].id>>)
          sc2    == SceneAdd(sc1, "tree", tid)
          sc3    == IF refs.garden # <<>>
                    THEN SceneRemove(sc2, "garden", refs.garden[1].id) ELSE sc2
          gid    == FreshId(sc3, "garden", IF refs.garden # <<>> THEN <<refs.garden[1].id>> ELSE <<>>)
          sc4    == SceneAdd(sc3, "garden", gid)
          sc5    == IF refs.badges # <<>>
                    THEN SceneRemove(sc4, "badges", refs.badges[1].id) ELSE sc4
          bid    == FreshId(sc5, "badges", IF refs.badges # <<>> THEN <<refs.badges[1].id>> ELSE <<>>)
          sc6    == SceneAdd(sc5, "badges", bid)
      IN  [refs EXCEPT
             !.scene  = <<sc6>>,
             !.tree   = <<[id |-> tid, params |-> TreeParams(st, og)]>>,
             !.garden = <<[id |-> gid,
                           built |-> buildGarden(st.totalMinutes, st.dayStreak)]>>,
             !.badges = <<[id |-> bid, built |-> buildBadgeMarkers(st.khatms)]>>]

(***************************************************************************)
(* The time effect, lines 617-659, run with the timeOverride of the render *)
(* and the wall clock now; ff is the sample of the data buildFireflies()   *)
(* returns if the effect calls it.                                         *)
(***************************************************************************)
TimeEffect(to, now, ff, refs) ==
    IF refs.scene = <<>> \/ ~refs.renderer \/ ~refs.hemi THEN refs
    \* applySkyToScene, lines 105-111: sunLightRef.current.color and
    \* fillRef.current.color are read without a null check; the TypeError is
    \* not caught by the effect, the statements after it do not run
    ELSE IF ~refs.sunLight \/ ~refs.fill THEN [refs EXCEPT !.threw = TRUE]
    ELSE
      LET sky == getTimeOfDayConfig(to, now)
          sc0 == refs.scene[1]
      IN  IF sky.isNight
          THEN
            LET sid == FreshId(sc0, "stars", refs.stars)
                sc1 == IF refs.stars = <<>> THEN SceneAdd(sc0, "stars", sid) ELSE sc0
                fid == FreshId(sc1, "fireflies", refs.fireflies)
                sc2 == IF refs.fireflies = <<>>
                       THEN SceneAdd(sc1, "fireflies", fid) ELSE sc1
                sc3 == IF refs.ffLights = <<>> THEN AddLights(sc2) ELSE sc2
            IN  [refs EXCEPT
                   !.sky = <<sky>>,
                   !.scene = <<sc3>>,
                   !.stars = IF refs.stars = <<>> THEN <<sid>> ELSE refs.stars,
                   !.fireflies = IF refs.fireflies = <<>> THEN <<fid>>
                                 ELSE refs.fireflies,
                   !.fireflyData = IF refs.fireflies = <<>> THEN <<ff>>
                                   ELSE refs.fireflyData,
                   !.ffLights = IF refs.ffLights = <<>>
                                THEN <<buildFireflyLights>>
                                ELSE refs.ffLights]
          ELSE
            LET sc1 == IF refs.stars # <<>>
                       THEN SceneRemove(sc0, "stars", refs.stars[1]) ELSE sc0
                sc2 == IF refs.fireflies # <<>>
                       THEN SceneRemove(sc1, "fireflies", refs.fireflies[1]) ELSE sc1
                sc3 == IF refs.ffLights # <<>>
                       THEN RemoveLights(sc2, refs.ffLights[1]) ELSE sc2
            IN  [refs EXCEPT
                   !.sky = <<sky>>,
                   !.scene = <<sc3>>,
                   !.stars = <<>>,
                   !.fireflies = <<>>,
                   !.fireflyData = IF refs.fireflies # <<>> THEN <<>>
                                   ELSE refs.fireflyData,
                   !.ffLights = <<>>]

(***************************************************************************)
(* The inputs of the TreeScene component.                                  *)
(***************************************************************************)
EmptyMemo == [k \in {} |-> <<>>]

Entry(status, verses, confidence) ==
    <<[status |-> status, versesMemorized |-> verses, verseConfidence |-> confidence]>>

\* memos over one surah, in the legacy and in the verseConfidence schema
SceneMemos ==
    {EmptyMemo} \cup
    { [k \in {1} |-> e] : e \in
        { Entry("decayed", {1}, <<>>),
          Entry("active", {}, <<{<<1, "shaky">>}>>),
          Entry("active", {}, <<{<<1, "good">>}>>) } }

ScenePages   == {0, 604}
SceneMinutes == {0, 30}
SceneStreaks == {0, 1}

\* the snapshots explored: every combination of pages, minutes and streak with
\* an empty memo, and every memo with nothing read and with everything read
SceneSnapshot(p, m, d, mm) ==
    [totalPages |-> p, khatms |-> getKhatmCount(p), totalMinutes |-> m,
     dayStreak |-> d, memo |-> mm]

SceneSnapshots ==
    { SceneSnapshot(p, m, d, EmptyMemo) :
        p \in ScenePages, m \in SceneMinutes, d \in SceneStreaks }
    \cup { SceneSnapshot(0, 0, 0, mm) : mm \in SceneMemos }
    \cup { SceneSnapshot(604, 30, 1, mm) : mm \in SceneMemos }

\* HomeScreen: devMode off gives overrideGrowth = timeOverride = null; devMode on
\* gives the override of the growth slider and the hour of the time slider
DevGrowths    == {Dec(35, 100), RInt(1)}
TimeOverrides == {1200, 2050}
DevProps ==
    {<<<<>>, <<>>>>} \cup
    {<< <<DevOverride(g)>>, <<t>> >> : g \in DevGrowths, t \in TimeOverrides}

\* sampled readings of the wall clock: 5:30 (night) and 6:00 (day)
ClockInstants == {550, 600}

\* gaps between two frame callbacks, in ms
FrameGaps == {17, 34}
\* ts - lastRender is tracked up to MaxSince ms
MaxSince == 34

(***************************************************************************)
(* The TreeScene component                                                 *)
(***************************************************************************)
Refs ==
    [scene |-> sceneRef, renderer |-> rendererRef, hemi |-> hemiRef,
     sky |-> appliedSky, tree |-> treeRef, garden |-> gardenRef,
     badges |-> badgesRef, stars |-> starsRef, fireflies |-> firefliesRef,
     fireflyData |-> fireflyDataRef, ffLights |-> ffLightsRef,
     sunLight |-> sunLightRef, fill |-> fillRef, threw |-> uncaught]

SetRefs(r) ==
    /\ sceneRef' = r.scene
    /\ rendererRef' = r.renderer
    /\ hemiRef' = r.hemi
    /\ appliedSky' = r.sky
    /\ treeRef' = r.tree
    /\ gardenRef' = r.garden
    /\ badgesRef' = r.badges
    /\ starsRef' = r.stars
    /\ firefliesRef' = r.fireflies
    /\ fireflyDataRef' = r.fireflyData
    /\ ffLightsRef' = r.ffLights
    /\ sunLightRef' = r.sunLight
    /\ fillRef' = r.fill
    /\ uncaught' = r.threw

refVars == <<sceneRef, rendererRef, hemiRef, appliedSky, treeRef, gardenRef,
             badgesRef, starsRef, firefliesRef, fireflyDataRef, ffLightsRef,
             sunLightRef, fillRef, uncaught>>

SceneIdle ==
    /\ mounted = FALSE
    /\ state = [totalPages |-> 0, khatms |-> 0, totalMinutes |-> 0,
                dayStreak |-> 0, memo |-> EmptyMemo]
    /\ overrideGrowth = <<>> /\ timeOverride = <<>>
    /\ clock = 0
    /\ sceneRef = <<>> /\ rendererRef = FALSE /\ hemiRef = FALSE
    /\ appliedSky = <<>>
    /\ treeRef = <<>> /\ gardenRef = <<>> /\ badgesRef = <<>>
    /\ starsRef = <<>> /\ firefliesRef = <<>> /\ fireflyDataRef = <<>>
    /\ ffLightsRef = <<>>
    /\ sunLightRef = FALSE /\ fillRef = FALSE
    /\ timeRef = 0 /\ initError = <<>> /\ uncaught = FALSE
    /\ rafRef = <<>> /\ rafPending = <<>>
    /\ sinceRender = 0 /\ renderGap = 0
    /\ framesAfterUnmount = 0

\* the component after its first render: every ref is null, the first run of the
\* two effects returned at once (sceneRef.current is null)
InitScene ==
    /\ StageIdle /\ TreeIdle /\ CallsIdle /\ AppIdle
    /\ mounted = TRUE
    /\ state \in SceneSnapshots
    /\ \E dp \in DevProps : overrideGrowth = dp[1] /\ timeOverride = dp[2]
    /\ clock \in ClockInstants
    /\ sceneRef = <<>> /\ rendererRef = FALSE /\ hemiRef = FALSE
    /\ appliedSky = <<>>
    /\ treeRef = <<>> /\ gardenRef = <<>> /\ badgesRef = <<>>
    /\ starsRef = <<>> /\ firefliesRef = <<>> /\ fireflyDataRef = <<>>
    /\ ffLightsRef = <<>>
    /\ sunLightRef = FALSE /\ fillRef = FALSE
    /\ timeRef = 0 /\ initError = <<>> /\ uncaught = FALSE
    /\ rafRef = <<>> /\ rafPending = <<>>
    /\ sinceRender = 0 /\ renderGap = 0
    /\ framesAfterUnmount = 0

\* requestAnimationFrame(loop): a handle different from the live ones
NewHandle == CHOOSE h \in 1..3 : <<h>> # rafRef /\ <<h>> # rafPending

\* the statements of onContextCreate at which an exception is explored: the
\* creation of the renderer (line 442, nothing is assigned yet), of the sun
\* light (line 461, rendererRef, sceneRef, cameraRef and hemiRef are assigned)
\* and of the tree (line 512, every ref but treeRef is assigned)
InitSteps == {"renderer", "sunLight", "tree"}

\* onContextCreate(gl), lines 438-588 (expo-gl calls the prop of the latest
\* render). The body is inside try/catch: when the statement failAt throws, the
\* refs assigned so far stay, the error is logged and the loop is not started;
\* failAt = "none" is the run without an exception.
ContextCreate ==
    /\ mounted /\ ~uncaught
    /\ sceneRef = <<>> /\ initError = <<>>
    /\ \E failAt \in InitSteps \cup {"none"}, n \in FireflySamples :
       LET sky == getTimeOfDayConfig(timeOverride, clock)
           sc0 == {<<"hemi", 1>>, <<"sunLight", 1>>, <<"fill", 1>>,
                   <<"celestial", 1>>, <<"ground", 1>>}
           sc1 == SceneAdd(sc0, "garden", 1)
           sc2 == SceneAdd(sc1, "badges", 1)
           sc3 == IF sky.isNight
                  THEN AddLights(SceneAdd(SceneAdd(sc2, "stars", 1), "fireflies", 1))
                  ELSE sc2
           sc4 == SceneAdd(sc3, "tree", 1)
           \* the refs when buildTree (line 512) is reached
           r3  == [Refs EXCEPT
                     !.scene = <<sc3>>,
                     !.renderer = TRUE,
                     !.hemi = TRUE,
                     !.sunLight = TRUE,
                     !.fill = TRUE,
                     !.sky = <<sky>>,
                     !.garden = <<[id |-> 1,
                                   built |-> buildGarden(state.totalMinutes,
                                                         state.dayStreak)]>>,
                     !.badges = <<[id |-> 1,
                                   built |-> buildBadgeMarkers(state.khatms)]>>,
                     !.stars = IF sky.isNight THEN <<1>> ELSE <<>>,
                     !.fireflies = IF sky.isNight THEN <<1>> ELSE <<>>,
                     !.fireflyData = IF sky.isNight THEN <<n>> ELSE <<>>,
                     !.ffLights = IF sky.isNight THEN <<buildFireflyLights>>
                                  ELSE <<>>]
       IN  /\ CASE failAt = "renderer" -> SetRefs(Refs)
                [] failAt = "sunLight" ->
                       SetRefs([Refs EXCEPT !.scene = <<{<<"hemi", 1>>}>>,
                                            !.renderer = TRUE,
                                            !.hemi = TRUE,
                                            !.sky = <<sky>>])
                [] failAt = "tree" -> SetRefs(r3)
                [] OTHER ->
                       SetRefs([r3 EXCEPT
                                  !.scene = <<sc4>>,
                                  !.tree = <<[id |-> 1,
                                              params |-> TreeParams(state,
                                                                    overrideGrowth)]>>])
           \* catch (err) { console.error('[TreeScene] init error:', err) }
           /\ initError' = IF failAt = "none" THEN <<>> ELSE <<failAt>>
           \* let lastRender = 0; requestAnimationFrame(loop): the handle is not kept
           /\ rafPending' = IF failAt = "none" THEN <<NewHandle>> ELSE <<>>
           /\ sinceRender' = IF failAt = "none" THEN MaxSince ELSE sinceRender
    /\ UNCHANGED <<mounted, state, overrideGrowth, timeOverride, clock, rafRef,
                   timeRef, renderGap, framesAfterUnmount>>
    /\ UNCHANGED <<stageVars, treeVars, callVars, appVars>>

\* a render of the component with new props, followed by the effects whose
\* dependency ([stateKey], [timeOverride]) changed; Math.random() is drawn from
\* only when the time effect runs without fireflies
Render(st, og, to) ==
    \E n \in IF to # timeOverride /\ firefliesRef = <<>>
             THEN FireflySamples ELSE {1} :
      LET r0 == Refs
          r1 == IF stateKey(st, og) # stateKey(state, overrideGrowth)
                THEN RebuildEffect(st, og, r0) ELSE r0
          r2 == IF to # timeOverride
                THEN TimeEffect(to, clock, n, r1) ELSE r1
      IN  /\ state' = st
          /\ overrideGrowth' = og
          /\ timeOverride' = to
          /\ SetRefs(r2)

\* the app state changes (reducer dispatch): HomeScreen passes the new snapshot
SnapshotChange ==
    /\ mounted /\ ~uncaught
    /\ \E st \in SceneSnapshots :
          /\ st # state
          /\ Render(st, overrideGrowth, timeOverride)
    /\ UNCHANGED <<mounted, clock, timeRef, initError, rafRef, rafPending,
                   sinceRender, renderGap, framesAfterUnmount>>
    /\ UNCHANGED <<stageVars, treeVars, callVars, appVars>>

\* dev mode is switched or a dev slider is moved
DevChange ==
    /\ mounted /\ ~uncaught
    /\ \E dp \in DevProps :
          /\ <<dp[1], dp[2]>> # <<overrideGrowth, timeOverride>>
          /\ Render(state, dp[1], dp[2])
    /\ UNCHANGED <<mounted, clock, timeRef, initError, rafRef, rafPending,
                   sinceRender, renderGap, framesAfterUnmount>>
    /\ UNCHANGED <<stageVars, treeVars, callVars, appVars>>

\* the sampled instant that follows c on the 24 h dial
NextInstant(c) ==
    IF \E x \in ClockInstants : x > c
    THEN CHOOSE x \in ClockInstants : x > c /\ \A y \in ClockInstants : y > c => x <= y
    ELSE CHOOSE x \in ClockInstants : \A y \in ClockInstants : x <= y

\* the wall clock moves on to the next sampled instant
Tick ==
    /\ clock' = NextInstant(clock)
    /\ UNCHANGED <<mounted, state, overrideGrowth, timeOverride, rafRef, rafPending,
                   timeRef, initError, sinceRender, renderGap, framesAfterUnmount>>
    /\ UNCHANGED refVars
    /\ UNCHANGED <<stageVars, treeVars, callVars, appVars>>

\* mutant: the pacing test never skips a frame
TooSoon_never(d) == FALSE

\* line 400 and line 521: ts - lastRender < FRAME_INTERVAL with
\* FRAME_INTERVAL = 1000 / 30, for d = ts - lastRender in ms
TooSoon(d) == d * 30 < 1000

\* the host runs the scheduled frame callback: loop(ts), lines 519-583
Frame ==
    /\ rafPending # <<>>
    /\ \E gap \in FrameGaps :
         LET h == NewHandle
             d == IF sinceRender + gap > MaxSince THEN MaxSince ELSE sinceRender + gap
             t == NextTime(timeRef)
         IN  \* rafRef.current = requestAnimationFrame(loop)
             /\ rafRef' = <<h>>
             /\ rafPending' = <<h>>
             /\ IF TooSoon(d)
                THEN \* if (ts - lastRender < FRAME_INTERVAL) return
                     /\ sinceRender' = d
                     /\ UNCHANGED <<timeRef, ffLightsRef, renderGap>>
                ELSE \* lastRender = ts; timeRef.current += 0.008; the tree, the
                     \* camera, the stars and the fireflies are animated at t, the
                     \* lights follow their fireflies; renderer.render(scene, camera)
                     /\ sinceRender' = 0
                     /\ renderGap' = d
                     /\ timeRef' = t
                     /\ ffLightsRef' =
                          IF firefliesRef # <<>> /\ fireflyDataRef # <<>>
                             /\ ffLightsRef # <<>>
                          THEN <<SyncLights(ffLightsRef[1],
                                            buildFireflies(fireflyDataRef[1]), t)>>
                          ELSE ffLightsRef
    /\ framesAfterUnmount' = IF mounted THEN framesAfterUnmount ELSE 1
    /\ UNCHANGED <<mounted, state, overrideGrowth, timeOverride, clock, initError>>
    /\ UNCHANGED <<sceneRef, rendererRef, hemiRef, appliedSky, treeRef, gardenRef,
                   badgesRef, starsRef, firefliesRef, fireflyDataRef, sunLightRef,
                   fillRef, uncaught>>
    /\ UNCHANGED <<stageVars, treeVars, callVars, appVars>>

\* unmount: the cleanup of lines 662-666
Unmount ==
    /\ mounted
    /\ mounted' = FALSE
    /\ rafPending' = IF rafRef # <<>> /\ rafPending = rafRef THEN <<>> ELSE rafPending
    /\ UNCHANGED <<state, overrideGrowth, timeOverride, clock, rafRef, sinceRender,
                   timeRef, initError, renderGap, framesAfterUnmount>>
    /\ UNCHANGED refVars
    /\ UNCHANGED <<stageVars, treeVars, callVars, appVars>>

NextScene == ContextCreate \/ SnapshotChange \/ DevChange \/ Tick \/ Frame \/ Unmount

SpecScene == InitScene /\ [][NextScene]_vars

(***************************************************************************)
(* Specification of the classifier: the arguments are drawn in Init, the   *)
(* actions call the two functions.                                         *)
(***************************************************************************)
InitStage ==
    /\ SceneIdle /\ TreeIdle /\ CallsIdle /\ AppIdle
    /\ totalPages \in 0..MaxPages
    /\ khatms \in 0..MaxKhatms
    /\ stageOut = 0
    /\ progressOut = <<>>

CallGetTreeStage ==
    /\ stageOut = 0
    /\ stageOut' = getTreeStage(totalPages, khatms)
    /\ UNCHANGED <<totalPages, khatms, progressOut>>
    /\ UNCHANGED <<sceneVars, treeVars, callVars, appVars>>

CallGetProgressToNextStage ==
    /\ progressOut = <<>>
    /\ progressOut' = getProgressToNextStage(totalPages, khatms)
    /\ UNCHANGED <<totalPages, khatms, stageOut>>
    /\ UNCHANGED <<sceneVars, treeVars, callVars, appVars>>

NextStage == CallGetTreeStage \/ CallGetProgressToNextStage

SpecStage == InitStage /\ [][NextStage]_vars

(***************************************************************************)
(* treeGen.js : mulberry32 (lines 24-32).                                  *)
(* A 32-bit word is a pair <<hi, lo>> of 16-bit halves; the operations are *)
(* those of the source on 32-bit integers (|0, >>>, ^, |, Math.imul).      *)
(***************************************************************************)
RECURSIVE BitXor(_, _, _)
BitXor(a, b, n) ==
    IF n = 0 THEN 0
    ELSE ((a + b) % 2) + 2 * BitXor(a \div 2, b \div 2, n - 1)

RECURSIVE BitOr(_, _, _)
BitOr(a, b, n) ==
    IF n = 0 THEN 0
    ELSE (IF a % 2 = 1 \/ b % 2 = 1 THEN 1 ELSE 0) + 2 * BitOr(a \div 2, b \div 2, n - 1)

\* ^ and | on two 4-bit digits, tabulated
XorTab == [i \in 0..255 |-> BitXor(i \div 16, i % 16, 4)]
OrTab  == [i \in 0..255 |-> BitOr(i \div 16, i % 16, 4)]

Nib(T, a, b, k) == T[((a \div k) % 16) * 16 + ((b \div k) % 16)] * k
Bits16(T, a, b) ==
    Nib(T, a, b, 1) + Nib(T, a, b, 16) + Nib(T, a, b, 256) + Nib(T, a, b, 4096)

Xor32(a, b) == <<Bits16(XorTab, a[1], b[1]), Bits16(XorTab, a[2], b[2])>>
Or32(a, b)  == <<Bits16(OrTab, a[1], b[1]), Bits16(OrTab, a[2], b[2])>>

RECURSIVE Pow2(_)
Pow2(k) == IF k = 0 THEN 1 ELSE 2 * Pow2(k - 1)

\* a >>> k for 0 < k < 16
Shr32(a, k) ==
    <<a[1] \div Pow2(k), (a[2] \div Pow2(k)) + (a[1] % Pow2(k)) * Pow2(16 - k)>>

\* (a + b) | 0
Add32(a, b) ==
    LET lo == a[2] + b[2]
    IN  <<(a[1] + b[1] + lo \div 65536) % 65536, lo % 65536>>

\* low 16 bits of the product of two 16-bit values, by bytes
Mul16Lo(p, q) ==
    (((p % 256) * (q % 256))
       + ((((p \div 256) * (q % 256) + (p % 256) * (q \div 256)) % 256) * 256)) % 65536

\* Math.imul(a, b): the low 32 bits of the product
Imul(a, b) ==
    LET a0 == a[2] % 256
        a1 == a[2] \div 256
        b0 == b[2] % 256
        b1 == b[2] \div 256
        p1 == a1 * b0 + a0 * b1
        low == a0 * b0 + (p1 % 256) * 256
        carry == (low \div 65536) + (p1 \div 256) + a1 * b1
    IN  <<(carry + Mul16Lo(a[1], b[2]) + Mul16Lo(a[2], b[1])) % 65536, low % 65536>>

\* mutant: the generator keeps the state the previous call of buildTree left
mulberry32_shared(seed) ==
    IF run = 2 THEN rand
    ELSE <<(seed \div 65536) % 65536, seed % 65536>>

\* line 25: let s = seed | 0
mulberry32(seed) == <<(seed \div 65536) % 65536, seed % 65536>>

\* lines 26-31, one call of the generator: the new s and the numerator v of the
\* returned float v / 4294967296
\*   s = (s + 0x6d2b79f5) | 0
\*   t = Math.imul(s ^ (s >>> 15), 1 | s)
\*   t = (t + Math.imul(t ^ (t >>> 7), 61 | t)) ^ t
\*   return ((t ^ (t >>> 14)) >>> 0) / 4294967296
Rand(s) ==
    The({ The({ The({ [s |-> s1, v |-> Xor32(t2, Shr32(t2, 14))]
        : t2 \in {Xor32(Add32(t1, Imul(Xor32(t1, Shr32(t1, 7)), Or32(<<0, 61>>, t1))), t1)} })
        : t1 \in {Imul(Xor32(s1, Shr32(s1, 15)), Or32(<<0, 1>>, s1))} })
        : s1 \in {Add32(s, <<27947, 31221>>)} })

\* the results of the next n calls
RECURSIVE Take(_, _)
Take(s, n) ==
    IF n = 0 THEN <<>>
    ELSE IF n = 1 THEN <<Rand(s)>>
    ELSE The({ h \o Take(h[Len(h)].s, n - (n \div 2)) : h \in {Take(s, n \div 2)} })

\* the state after n calls whose values only place vertices, leaves or flowers
RECURSIVE Skip(_, _)
Skip(s, n) ==
    IF n = 0 THEN s
    ELSE IF n = 1 THEN Rand(s).s
    ELSE The({ Skip(h, n - (n \div 2)) : h \in {Skip(s, n \div 2)} })

(***************************************************************************)
(* JS numbers of buildTree.  Finite numbers are the rationals above;       *)
(* Infinity is <<1, 0>> and NaN is <<0, 0>>.  Lengths and radii are kept   *)
(* in units of 0.0001 (rounded down).                                      *)
(***************************************************************************)
Infinity == <<1, 0>>
NaN      == <<0, 0>>
isFinite(x) == x[2] # 0

\* long division: <<floor((v + r/d) * base^k), remainder>>
RECURSIVE LongDiv(_, _, _, _, _)
LongDiv(v, r, d, base, k) ==
    IF k = 0 THEN <<v, r>>
    ELSE LongDiv(v * base + (r * base) \div d, (r * base) % d, d, base, k - 1)

\* a finite non-negative number in units of 0.0001
Fx(x) == LongDiv(x[1] \div x[2], x[1] % x[2], x[2], 10, 4)[1]

\* Math.floor(x), Math.round(x), x % 1 (x >= 0), a * b (a, b >= 0), a - n
MathFloor(x) == IF isFinite(x) THEN RInt(x[1] \div x[2]) ELSE x
MathRound(x) == IF isFinite(x) THEN MathFloor(RAdd(x, Dec(1, 2))) ELSE x
Mod1(x)      == IF isFinite(x) THEN RNorm(<<x[1] % x[2], x[2]>>) ELSE NaN
Times(a, b)  ==
    IF a = NaN \/ b = NaN THEN NaN
    ELSE IF isFinite(a) /\ isFinite(b) THEN RMul(a, b)
    ELSE IF a[1] = 0 \/ b[1] = 0 THEN NaN
    ELSE Infinity
Minus(x, n)  == IF isFinite(x) THEN RSub(x, RInt(n)) ELSE x
\* x > 0 and i < x (false for NaN)
Positive(x)  == x[1] > 0
Below(i, x)  == IF isFinite(x) THEN i * x[2] < x[1] ELSE x = Infinity

\* rand() < q for the returned numerator v
LtRand(v, q) ==
    IF ~isFinite(q) THEN q = Infinity
    ELSE IF q[1] <= 0 THEN FALSE
    ELSE IF q[1] >= q[2] THEN TRUE
    ELSE LET a == LongDiv(0, q[1], q[2], 16, 4)
             b == LongDiv(0, a[2], q[2], 16, 4)
         IN  \/ v[1] < a[1]
             \/ v[1] = a[1] /\ v[2] < b[1]
             \/ v[1] = a[1] /\ v[2] = b[1] /\ b[2] > 0

(***************************************************************************)
(* treeGen.js : buildTree and its helpers.                                 *)
(* Geometry is kept symbolically.  A point or direction computed from a    *)
(* built branch names that branch by its index in group.meshes and carries *)
(* the random numbers (their high 16 bits) it was computed from; a built   *)
(* branch carries the generator state its vertices were drawn from.  Two   *)
(* runs therefore agree on a record iff they agree on every number the     *)
(* source computes the vector from.                                        *)
(***************************************************************************)
SafetyCap == 2000

Max(a, b) == IF a >= b THEN a ELSE b
Min(a, b) == IF a <= b THEN a ELSE b

\* buildBranchGeometry (lines 152-253): 3 calls of rand per section after the first
\* ring; the mesh, the tip and the tipOrientation are determined by the record
buildBranchGeometry(branch, s) ==
    LET sections == Max(3, (branch.length * 5 + 9999) \div 10000)
    IN  [mesh |-> [origin |-> branch.origin, direction |-> branch.direction,
                   length |-> branch.length, radius |-> branch.radius,
                   level |-> branch.level, sections |-> sections, rand |-> s],
         rand |-> Skip(s, 3 * sections)]

\* lines 283-294: the flower, after the leaves left the generator in state s1
Bloom(p, tip, cluster, s1) ==
    IF ~p.hasBloom
    THEN [rand |-> s1, leaves |-> cluster, blooms |-> <<>>]
    ELSE The({ IF LtRand(r.v, RMul(p.bloomIntensity, Dec(1, 2)))
               THEN [rand |-> Skip(r.s, 3), leaves |-> cluster,
                     blooms |-> <<[tip |-> tip, rand |-> r.s]>>]
               ELSE [rand |-> r.s, leaves |-> cluster, blooms |-> <<>>]
             : r \in {Rand(s1)} })

\* addLeaves (lines 260-295): the leaves and the flower added at a tip
addLeaves(p, tip, s) ==
    IF ~Positive(p.leafDensity)
    THEN [rand |-> s, leaves |-> <<>>, blooms |-> <<>>]
    ELSE The({ Bloom(p, tip, <<[tip |-> tip, count |-> count, rand |-> s]>>,
                     Skip(s, 7 * count))
             : count \in {Max(1, MathRound(RMul(p.leafDensity, RInt(5)))[1])} })

\* length * falloff * (0.85 + rand() * 0.3), lines 416-417
Falloff(len, falloff, v) ==
    (((len * Fx(falloff)) \div 10000) * (8500 + (3000 * v[1]) \div 65536)) \div 10000

\* lines 399-420, the calls of rand for one child: pitch, the clamp of line 412
\* (v = <<-1, 0>> when it is not taken), length, radius, spawnT.
\* childLocal.y < 0.1 (line 411) is not computed from the rotation: for a child
\* of the trunk it is false (the trunk leans by at most 0.02 and bends by
\* gnarliness * 0.15 per section, pitch <= 0.8 + 0.125, so y >= cos(1.1) > 0.1);
\* for other children it is c.lowY applied to whether the pitch is above
\* params.branchAngle, a function fixed for the call's input.
ChildDraws(c, s) ==
    The({ The({ <<pitch, clamp>> \o Take(clamp.s, 3)
        : clamp \in {IF c.level >= 1 /\ c.lowY[pitch.v[1] >= 32768]
                     THEN Rand(pitch.s)
                     ELSE [s |-> pitch.s, v |-> <<-1, 0>>]} })
        : pitch \in {Rand(s)} })

\* lines 398-429: the queue entry of child i
Child(c, i, childCount, d) ==
    [origin |-> <<c.tip, d[5].v[1]>>,
     direction |-> <<c.tip, c.radialOffset, i, childCount[1], d[1].v[1], d[2].v[1]>>,
     length |-> Falloff(c.length, c.p.lengthFalloff, d[3].v),
     radius |-> Falloff(c.radius, c.p.radiusFalloff, d[4].v),
     level |-> c.level + 1]

\* lines 397-430, the loop that spawns the children of the branch built as
\* group.meshes[c.tip]
RECURSIVE SpawnLoop(_, _, _, _, _)
SpawnLoop(i, childCount, c, s, kids) ==
    IF ~Below(i, childCount) THEN [rand |-> s, kids |-> kids]
    ELSE The({ SpawnLoop(i + 1, childCount, c, d[5].s,
                         Append(kids, Child(c, i, childCount, d)))
             : d \in {ChildDraws(c, s)} })

\* lines 380-384: childCount on a partial level, x = childrenPerNode * fractionalLevel
PartialCount(x, r) ==
    LET n == MathFloor(x)
        n1 == IF LtRand(r.v, Mod1(x)) /\ isFinite(n) THEN RInt(n[1] + 1) ELSE n
    IN  [n |-> IF isFinite(n1) THEN RInt(Max(0, n1[1])) ELSE n1, rand |-> r.s]

\* lines 378-387: let childCount
\* variant: one child more than round(childrenPerNode) on a full level
ChildCount_extra(p, isPartialLevel, frac, s) ==
    IF isPartialLevel
    THEN The({ PartialCount(x[1], x[2])
             : x \in {<<Times(p.childrenPerNode, frac), Rand(s)>>} })
    ELSE [n |-> IF isFinite(p.childrenPerNode)
                THEN RAdd(MathRound(p.childrenPerNode), RInt(1))
                ELSE MathRound(p.childrenPerNode),
          rand |-> s]

ChildCount(p, isPartialLevel, frac, s) ==
    IF isPartialLevel
    THEN The({ PartialCount(x[1], x[2])
             : x \in {<<Times(p.childrenPerNode, frac), Rand(s)>>} })
    ELSE [n |-> MathRound(p.childrenPerNode), rand |-> s]

\* lines 444-475: one decoration per entry of params.fruits
RECURSIVE PlaceFruits(_, _, _, _)
PlaceFruits(fruits, fi, fruitRand, placed) ==
    IF fi > Len(fruits) THEN placed
    ELSE The({ PlaceFruits(fruits, fi + 1, Skip(r.s, 3), Append(placed,
                 [kind |-> IF fruits[fi].status = "complete" THEN "fruit" ELSE "blossom",
                  surahId |-> fruits[fi].surahId,
                  \* Math.floor(fruitRand() * terminalTips.length)
                  tip |-> terminalTips[((r.v[1] * Len(terminalTips)
                             + (r.v[2] * Len(terminalTips)) \div 65536) \div 65536) + 1],
                  progressScale |-> IF fruits[fi].status = "complete" THEN -1
                                    ELSE Min(20, fruits[fi].progress),
                  rand |-> r.s]))
             : r \in {Rand(fruitRand)} })

\* the locals after a round of the while loop that ends at `continue` or at
\* the end of the body
Continue(q, s, g, tips) ==
    [pc |-> IF q = <<>> THEN "after" ELSE "loop", queue |-> q, rand |-> s,
     group |-> g, terminalTips |-> tips]

\* lines 372-374 and 390-392: leaves at the tip, the tip recorded, continue
Terminal(rest, g, tip, s) ==
    The({ Continue(rest, al.rand,
                   [g EXCEPT !.leaves = @ \o al.leaves, !.blooms = @ \o al.blooms],
                   Append(terminalTips, tip))
        : al \in {addLeaves(params, tip, s)} })

\* lines 432-435, after the children sp.kids were pushed
NearTerminal(branch, rest, g, tip, sp) ==
    IF branch.level >= maxLevel - 1
    THEN The({ Continue(rest \o sp.kids, al.rand,
                        [g EXCEPT !.leaves = @ \o al.leaves, !.blooms = @ \o al.blooms],
                        terminalTips)
             : al \in {addLeaves(params, tip, sp.rand)} })
    ELSE Continue(rest \o sp.kids, sp.rand, g, terminalTips)

\* lines 389-435, childCount being cc.n
Spawn(branch, rest, g, tip, cc) ==
    IF cc.n = RInt(0) THEN Terminal(rest, g, tip, cc.rand)
    ELSE IF cc.n = Infinity
    THEN \* for (let i = 0; i < Infinity; i++) queue.push(...) has no exit
         [pc |-> "diverged", queue |-> rest, rand |-> cc.rand, group |-> g,
          terminalTips |-> terminalTips]
    ELSE The({ NearTerminal(branch, rest, g, tip, sp)
             : sp \in { SpawnLoop(0, cc.n,
                                  [tip |-> tip, radialOffset |-> radialOffset.v[1],
                                   length |-> branch.length, radius |-> branch.radius,
                                   level |-> branch.level, p |-> params,
                                   lowY |-> input.lowY],
                                  radialOffset.s, <<>>)
                        : radialOffset \in {Rand(cc.rand)} } })

\* lines 364-387, the branch being built as group.meshes[tip]
\* variant: a branch is terminal only above the level cap
Built_late(branch, rest, built, tip) ==
    LET g == [group EXCEPT !.meshes = Append(@, built.mesh)]
        isTerminal == branch.level > maxLevel
        isPartialLevel == branch.level = maxLevel /\ Positive(fractionalLevel)
    IN  IF isTerminal /\ ~isPartialLevel THEN Terminal(rest, g, tip, built.rand)
        ELSE The({ Spawn(branch, rest, g, tip, cc)
                 : cc \in {ChildCount(params, isPartialLevel, fractionalLevel,
                                      built.rand)} })

Built(branch, rest, built, tip) ==
    LET g == [group EXCEPT !.meshes = Append(@, built.mesh)]
        isTerminal == branch.level >= maxLevel
        isPartialLevel == branch.level = maxLevel /\ Positive(fractionalLevel)
    IN  IF isTerminal /\ ~isPartialLevel THEN Terminal(rest, g, tip, built.rand)
        ELSE The({ Spawn(branch, rest, g, tip, cc)
                 : cc \in {ChildCount(params, isPartialLevel, fractionalLevel,
                                      built.rand)} })

\* lines 355-436: the body of the while loop, as the values of the locals after it
LoopBody ==
    LET branch == Head(queue)
        rest == Tail(queue)
    IN  IF branch.length < 300 \/ branch.radius < 30        \* line 358
        THEN Continue(rest, rand, group, terminalTips)
        ELSE The({ Built(branch, rest, built, Len(group.meshes) + 1)
                 : built \in {buildBranchGeometry(branch, rand)} })

\* lines 299-350: buildTree up to the while loop
\* mutant: only a growth of exactly 0 takes the seed shortcut
IsSeed_zero(p) == p.growth = RInt(0)
\* line 321: if (params.growth < 0.01)
\* variant: the shortcut taken below a tenth of full growth
IsSeed_wide(p) == RLt(p.growth, Dec(1, 10))

IsSeed(p) == RLt(p.growth, Dec(1, 100))

\* the argument state of the current call
ArgState == IF run = 2 /\ input.again # <<>> THEN input.again[1] ELSE input.state

BuildTreeBegin ==
    /\ pc = "idle" /\ run \in {1, 2}
    /\ \E p \in {TreeParams(ArgState, input.overrideGrowth)} :
       \E lean \in {Take(mulberry32(IF p.seed = 0 THEN 42 ELSE p.seed), 2)} :
           /\ params' = p
           \* lines 313-319: the ground disc is added to the group in every case
           /\ group' = [NoGroup EXCEPT !.ground = TRUE,
                                       !.seed = IsSeed(p)]
           /\ terminalTips' = <<>>
           /\ IF IsSeed(p)
              THEN \* lines 322-329: the seed, return group
                   /\ rand' = mulberry32(IF p.seed = 0 THEN 42 ELSE p.seed)
                   /\ pc' = "returned"
                   /\ UNCHANGED <<queue, maxLevel, fractionalLevel, safetyIter>>
              ELSE /\ rand' = lean[2].s
                   /\ queue' = <<[origin |-> <<0, 0>>,
                                  direction |-> <<0, lean[1].v[1], lean[2].v[1], 0, 0, -1>>,
                                  length |-> Fx(p.trunkLength),
                                  radius |-> Fx(p.trunkRadius),
                                  level |-> 0]>>
                   /\ maxLevel' = IF isFinite(p.levels) THEN MathFloor(p.levels)[1] ELSE 2
                   /\ fractionalLevel' = Minus(p.levels, maxLevel')
                   /\ safetyIter' = 0
                   /\ pc' = "loop"
    /\ UNCHANGED <<input, run, first>>
    /\ UNCHANGED <<stageVars, sceneVars, callVars, appVars>>

\* lines 353-436: one round of the while loop (the safety cap of line 354 first)
BuildTreeLoop ==
    /\ pc = "loop"
    /\ safetyIter' = safetyIter + 1
    /\ IF safetyIter + 1 > SafetyCap
       THEN /\ pc' = "after"
            /\ UNCHANGED <<queue, rand, group, terminalTips>>
       ELSE \E body \in {LoopBody} :
                /\ pc' = body.pc
                /\ queue' = body.queue
                /\ rand' = body.rand
                /\ group' = body.group
                /\ terminalTips' = body.terminalTips
    /\ UNCHANGED <<input, run, params, maxLevel, fractionalLevel, first>>
    /\ UNCHANGED <<stageVars, sceneVars, callVars, appVars>>

\* lines 438-478: the decorations, then return group
BuildTreeFruits ==
    /\ pc = "after"
    /\ group' = [group EXCEPT !.fruits =
                    IF Len(params.fruits) > 0 /\ Len(terminalTips) > 0
                    THEN PlaceFruits(params.fruits, 1, mulberry32(42), <<>>)
                    ELSE <<>>]
    /\ pc' = "returned"
    /\ UNCHANGED <<input, run, params, rand, queue, maxLevel, fractionalLevel,
                   safetyIter, terminalTips, first>>
    /\ UNCHANGED <<stageVars, sceneVars, callVars, appVars>>

\* the caller keeps what the first call returned and calls buildTree again, on
\* the same arguments or on the snapshot input.again; the locals of the first
\* call are left as they are
CallAgain ==
    /\ pc = "returned" /\ run = 1
    /\ first' = <<[params |-> params, group |-> group, terminalTips |-> terminalTips]>>
    /\ run' = 2
    /\ pc' = "idle"
    /\ UNCHANGED <<input, params, rand, queue, maxLevel, fractionalLevel, safetyIter,
                   group, terminalTips>>
    /\ UNCHANGED <<stageVars, sceneVars, callVars, appVars>>

(***************************************************************************)
(* The calls of buildTree that are explored.                               *)
(***************************************************************************)
TreeMemos ==
    { EmptyMemo,
      [k \in {1} |-> Entry("active", {1, 2}, <<>>)],
      [k \in {1, 2, 3} |->
          CASE k = 1 -> Entry("complete", {}, <<{<<1, "good">>, <<2, "good">>, <<3, "shaky">>}>>)
            [] k = 2 -> Entry("decayed", {1}, <<>>)
            [] k = 3 -> Entry("active", {}, <<{<<1, "shaky">>}>>)] }

TreePages   == {0, 151, 302}
TreeKhatms  == {0, 1}
TreeMinutes == {0, 600}

TreeSnapshots ==
    { [totalPages |-> p, khatms |-> k, totalMinutes |-> m, dayStreak |-> 0,
       memo |-> mm] :
        p \in TreePages, k \in TreeKhatms, m \in TreeMinutes, mm \in TreeMemos }

\* parameter sets passed as overrideGrowth: the one of the dev slider at 0.5,
\* and malformed ones with a non-finite levels or childrenPerNode
TreeOverrides ==
    LET d == DevOverride(Dec(1, 2))
    IN  { d,
          [d EXCEPT !.levels = Infinity],
          [d EXCEPT !.levels = NaN],
          [d EXCEPT !.childrenPerNode = Infinity],
          [d EXCEPT !.childrenPerNode = NaN] }

\* a run-away parameter set: 12 levels of 2 children whose branches do not shrink
RunAway ==
    [DevOverride(Dec(1, 2)) EXCEPT !.levels = RInt(12), !.childrenPerNode = RInt(2),
                                   !.lengthFalloff = RInt(1), !.radiusFalloff = RInt(1)]

\* which rotated children point below y = 0.1: none, those pitched above
\* branchAngle, or all
LowYs == { [b \in BOOLEAN |-> FALSE], [b \in BOOLEAN |-> b], [b \in BOOLEAN |-> TRUE] }

\* the snapshot passed along with an override
OverriddenSnapshot ==
    CHOOSE st \in TreeSnapshots :
        /\ st.totalPages = 302 /\ st.khatms = 0 /\ st.totalMinutes = 0
        /\ Cardinality(DOMAIN st.memo) = 3

\* snapshots just below and just above growth 0.01 (10 and 11 pages), with
\* minutes and a memo that would give leaves and fruits on a tree
SeedlingSnapshots ==
    { [OverriddenSnapshot EXCEPT !.totalPages = p, !.totalMinutes = 600] :
        p \in {10, 11} }

\* the snapshots of a first khatm milestone and of the oldest tree
MilestoneSnapshots ==
    { [totalPages |-> QURAN_PAGES, khatms |-> k, totalMinutes |-> 0, dayStreak |-> 0,
       memo |-> EmptyMemo] : k \in {3, 10} }

\* a first and a second snapshot of equal growth: both past the 604-page cap of
\* pageNorm, or differing in totalMinutes only
EqualGrowthPairs ==
    { << [totalPages |-> 604, khatms |-> 0, totalMinutes |-> 0, dayStreak |-> 0,
          memo |-> EmptyMemo],
         [totalPages |-> 610, khatms |-> 0, totalMinutes |-> 0, dayStreak |-> 0,
          memo |-> EmptyMemo] >>,
      << [totalPages |-> 302, khatms |-> 0, totalMinutes |-> 0, dayStreak |-> 0,
          memo |-> EmptyMemo],
         [totalPages |-> 302, khatms |-> 0, totalMinutes |-> 600, dayStreak |-> 0,
          memo |-> EmptyMemo] >> }

\* input.again is <<>> when the second call repeats the first
TreeInputs ==
    { [state |-> st, again |-> <<>>, overrideGrowth |-> <<>>, lowY |-> f] :
        st \in TreeSnapshots, f \in LowYs }
    \cup
    { [state |-> OverriddenSnapshot, again |-> <<>>, overrideGrowth |-> <<og>>,
       lowY |-> f] :
        og \in TreeOverrides, f \in LowYs }
    \cup
    { [state |-> OverriddenSnapshot, again |-> <<>>, overrideGrowth |-> <<RunAway>>,
       lowY |-> [b \in BOOLEAN |-> b]] }
    \cup
    { [state |-> st, again |-> <<>>, overrideGrowth |-> <<>>,
       lowY |-> [b \in BOOLEAN |-> b]] :
        st \in SeedlingSnapshots \cup MilestoneSnapshots }
    \cup
    { [state |-> pr[1], again |-> <<pr[2]>>, overrideGrowth |-> <<>>,
       lowY |-> [b \in BOOLEAN |-> b]] :
        pr \in EqualGrowthPairs }

InitTree ==
    /\ StageIdle /\ SceneIdle /\ CallsIdle /\ AppIdle
    /\ input \in TreeInputs
    /\ run = 1 /\ pc = "idle" /\ params = <<>>
    /\ rand = <<0, 0>> /\ queue = <<>>
    /\ maxLevel = 0 /\ fractionalLevel = <<0, 1>> /\ safetyIter = 0
    /\ group = NoGroup /\ terminalTips = <<>> /\ first = <<>>

NextTree == BuildTreeBegin \/ BuildTreeLoop \/ BuildTreeFruits \/ CallAgain

SpecTree == InitTree /\ [][NextTree]_vars

(***************************************************************************)
(* Direct calls of the pure functions.  A JavaScript value handed to a     *)
(* function is <<"undefined">> (the property is missing), <<"null">>,      *)
(* <<"number", n>> or <<"object", o>>.                                     *)
(***************************************************************************)
Undefined == <<"undefined">>
Null      == <<"null">>
Num(n)    == <<"number", n>>
Obj(o)    == <<"object", o>>

\* treeGen.js line 37: const { totalPages = 0, ..., memo = {} } = state;
\* a default replaces undefined only, null is kept
Destructure(snapshot) ==
    [ totalPages   |-> IF snapshot.totalPages = Undefined THEN Num(0)
                       ELSE snapshot.totalPages,
      totalMinutes |-> IF snapshot.totalMinutes = Undefined THEN Num(0)
                       ELSE snapshot.totalMinutes,
      dayStreak    |-> IF snapshot.dayStreak = Undefined THEN Num(0)
                       ELSE snapshot.dayStreak,
      khatms       |-> IF snapshot.khatms = Undefined THEN Num(0)
                       ELSE snapshot.khatms,
      memo         |-> IF snapshot.memo = Undefined THEN Obj(EmptyMemo)
                       ELSE snapshot.memo ]

\* the numeric value of an operand of / * >= : null converts to 0
ToNumber(v) == IF v = Null THEN 0 ELSE v[2]

Returned(v) == [threw |-> <<>>, value |-> <<v>>]
Threw(e)    == [threw |-> <<e>>, value |-> <<>>]

\* computeGrowth(state) as called with an arbitrary snapshot object:
\* line 37, then lines 39-97 on the numeric values; Object.entries(memo)
\* (line 49) throws a TypeError on null
computeGrowthCall(snapshot) ==
    LET d == Destructure(snapshot)
    IN  IF d.memo = Null THEN Threw("TypeError")
        ELSE Returned(computeGrowth(
                 [ totalPages   |-> ToNumber(d.totalPages),
                   totalMinutes |-> ToNumber(d.totalMinutes),
                   dayStreak    |-> ToNumber(d.dayStreak),
                   khatms       |-> ToNumber(d.khatms),
                   memo         |-> d.memo[2] ]))

\* mutant: the angle is taken over the 12 slots of a full ring
BadgeAngle_slots(i, count) == RNorm(<<i % 2, 12>>)
\* line 276: angle = (i / count) * Math.PI * 2, as a fraction of the full turn
BadgeAngle(i, count) == RNorm(<<i, count>>)

\* lines 276-296: stone i of count; lean is the value drawn for rotation.z.
\* The position is (cos(angle) * r, height / 2, sin(angle) * r).
BadgeStone(i, count, lean) ==
    [ angle     |-> BadgeAngle(i, count),
      r         |-> RAdd(Dec(19, 10), RMul(RInt(i % 2), Dec(3, 10))),
      isSpecial |-> (i % 5 = 0),
      height    |-> RAdd(Dec(15, 100), RMul(RInt(i % 3), Dec(7, 100))),
      lean      |-> lean ]

RECURSIVE BadgeRange(_, _, _, _)
\* the stones i .. j - 1 of the loop of line 275, s the state of rand before
\* them; the range is halved so that the evaluation stays shallow
BadgeRange(i, j, count, s) ==
    IF i >= j THEN [items |-> <<>>, s |-> s]
    ELSE IF j = i + 1
    THEN The({ [items |-> <<BadgeStone(i, count, d.v)>>, s |-> d.s]
               : d \in {Rand(s)} })
    ELSE The({ The({ [items |-> a.items \o b.items, s |-> b.s]
                     : b \in {BadgeRange((i + j) \div 2, j, count, a.s)} })
               : a \in {BadgeRange(i, (i + j) \div 2, count, s)} })

\* line 275: for (let i = 0; i < count; i++), s the state of rand
BadgeLoop(i, count, s) == BadgeRange(i, count, count, s).items

\* buildBadgeMarkers(khatms), lines 270-299, as called with any value:
\* count = Math.min(khatms || 0, 12); the children of the returned group
buildBadgeMarkersCall(k) ==
    LET count == buildBadgeMarkers(IF k \in {Undefined, Null} THEN 0 ELSE k[2]).count
    IN  BadgeLoop(0, count, mulberry32(12191461))

\* lines 171-173, entry level + 1 for the source's index level
GRASS_COUNTS  == <<0, 10, 22, 36, 54>>
FLOWER_COUNTS == <<0, 0, 6, 12, 20>>
SHRUB_COUNTS  == <<0, 0, 0, 2, 5>>

\* A value drawn from rand() is kept as the 32-bit numerator v of v / 2^32: the
\* angle rand() * 2 pi and the distance 0.5 + rand() * 2.8 of a tuft are given
\* by their two draws.

\* lines 196-206: one grass tuft from the next 14 draws: angle, r, and for each
\* of the 3 blades position x, z and rotation x, y
Tuft(d) ==
    [ angle  |-> d[1].v, r |-> d[2].v,
      blades |-> [b \in 1..3 |-> <<d[4 * b - 1].v, d[4 * b].v,
                                    d[4 * b + 1].v, d[4 * b + 2].v>>] ]

\* lines 215-229: one wildflower from the next 3 draws: angle, r and the draw h
\* that picks the petal colour
Flower(d) ==
    [ angle |-> d[1].v, r |-> d[2].v,
      pcol  |-> IF LtRand(d[3].v, Dec(33, 100)) THEN "ffaacc"
                ELSE IF LtRand(d[3].v, Dec(66, 100)) THEN "ffdd77" ELSE "88ccff" ]

\* lines 242-257: shrub i of count from the next 4 draws: the angle is
\* (i / count) * 2 pi + rand() * 0.6, then r and the lobe's offset x, z
Shrub(i, count, d) ==
    [ slot |-> RNorm(<<i, count>>), jitter |-> d[1].v, r |-> d[2].v,
      lobe |-> <<d[3].v, d[4].v>> ]

\* one iteration of the loop of a kind: the item built from the next draws of
\* rand and the state of rand after them
GardenItem(kind, i, count, s) ==
    CASE kind = "grass" ->
           The({ [item |-> Tuft(d), s |-> d[14].s] : d \in {Take(s, 14)} })
      [] kind = "flower" ->
           The({ [item |-> Flower(d), s |-> d[3].s] : d \in {Take(s, 3)} })
      [] OTHER ->
           The({ [item |-> Shrub(i, count, d), s |-> d[4].s] : d \in {Take(s, 4)} })

RECURSIVE GardenRange(_, _, _, _, _)
\* the iterations i .. j - 1 of the loop of a kind, s the state of rand before
\* them; the range is halved so that the evaluation stays shallow
GardenRange(kind, i, j, count, s) ==
    IF i >= j THEN [items |-> <<>>, s |-> s]
    ELSE IF j = i + 1
    THEN The({ [items |-> <<g.item>>, s |-> g.s]
               : g \in {GardenItem(kind, i, count, s)} })
    ELSE The({ The({ [items |-> a.items \o b.items, s |-> b.s]
                     : b \in {GardenRange(kind, (i + j) \div 2, j, count, a.s)} })
               : a \in {GardenRange(kind, i, (i + j) \div 2, count, s)} })

\* line 195: the tufts and the state of rand after them
GrassLoop(i, count, s) == GardenRange("grass", i, count, count, s)

\* line 214
FlowerLoop(i, count, s) == GardenRange("flower", i, count, count, s)

\* line 241
ShrubLoop(i, count, s) == GardenRange("shrub", i, count, count, s)

\* buildGarden(totalMinutes, dayStreak), lines 175-264, in full: the children of
\* the returned group by kind, and the vibrancy that colours grass and shrubs.
\* rand = mulberry32(0xc0ffee); dayStreak || 0 takes a missing streak as 0.
buildGardenCall(totalMinutes, dayStreak) ==
    LET g == buildGarden(totalMinutes,
                         IF dayStreak \in {Undefined, Null} THEN 0 ELSE dayStreak[2])
    IN  IF g.level = 0
        THEN [vibrancy |-> g.vibrancy, grass |-> <<>>, flowers |-> <<>>,
              shrubs |-> <<>>]
        ELSE The({ The({ The({
                 [ vibrancy |-> g.vibrancy, grass |-> grass.items,
                   flowers |-> flowers.items, shrubs |-> shrubs.items ]
                 : shrubs \in {IF g.level >= 3
                                THEN ShrubLoop(0, SHRUB_COUNTS[g.level + 1], flowers.s)
                                ELSE [items |-> <<>>, s |-> flowers.s]} })
                 : flowers \in {IF g.level >= 2
                                 THEN FlowerLoop(0, FLOWER_COUNTS[g.level + 1], grass.s)
                                 ELSE [items |-> <<>>, s |-> grass.s]} })
                 : grass \in {GrassLoop(0, GRASS_COUNTS[g.level + 1],
                                         mulberry32(12648430))} })

\* ---- the calls made
MaxBadgeKhatms == 14
MaxMinutes == 700

\* minutes at both ends of each level, and streaks missing, below and above the
\* 30 days of full vibrancy
GardenMinutes == <<0, 29, 30, 119, 120, 299, 300, 599, 600, MaxMinutes>>
GardenStreaks == {Undefined, Num(15), Num(45)}

\* two calls of buildGarden: the same or the next entry of GardenMinutes, any
\* two streaks
GardenCalls ==
    { [fn |-> "buildGarden",
       args |-> << [totalMinutes |-> GardenMinutes[ij[1]], dayStreak |-> d1],
                   [totalMinutes |-> GardenMinutes[ij[2]], dayStreak |-> d2] >>] :
        ij \in { p \in (1..Len(GardenMinutes)) \X (1..Len(GardenMinutes)) :
                    p[2] \in {p[1], p[1] + 1} },
        d1 \in GardenStreaks, d2 \in GardenStreaks }

BadgeCalls ==
    { [fn |-> "buildBadgeMarkers", args |-> <<k>>] :
        k \in {Undefined, Null} \cup { Num(n) : n \in 0..MaxBadgeKhatms } }

PageSteps   == {0, 1, 60}
CallKhatms  == {0, 1, 3, 10, MaxKhatms}

\* a well-formed snapshot
Snapshot(p, m, d, k, memo) ==
    [ totalPages |-> Num(p), totalMinutes |-> Num(m), dayStreak |-> Num(d),
      khatms |-> Num(k), memo |-> Obj(memo) ]

\* a memo with null entries beside a live one
HoledMemo ==
    (1 :> <<>>) @@ (2 :> Entry("active", {1, 2}, <<>>)) @@ (3 :> <<>>)

\* snapshots with missing or null properties
PartialSnapshots ==
    { [ totalPages |-> p, totalMinutes |-> m, dayStreak |-> d, khatms |-> k,
        memo |-> mm ] :
        p \in {Undefined, Null, Num(302)},
        m \in {Undefined, Null, Num(450)},
        d \in {Undefined, Null, Num(15)},
        k \in {Undefined, Null, Num(2)},
        mm \in {Undefined, Null, Obj(EmptyMemo), Obj(HoledMemo)} }

\* two calls whose snapshots differ in totalPages only, the second not smaller
GrowthPairs ==
    { <<Snapshot(p, 90, 7, k, EmptyMemo), Snapshot(p + s, 90, 7, k, EmptyMemo)>> :
        p \in 0..MaxPages, s \in PageSteps, k \in CallKhatms }

ComputeGrowthCalls ==
    { [fn |-> "computeGrowth", args |-> a] :
        a \in GrowthPairs \cup { <<s>> : s \in PartialSnapshots } }

\* a day in 1/100 hour (the 24 of overrideHour % 24)
DayLength == 2400

\* getTimeOfDayConfig with an override hour of the slider (0..24) or with none,
\* at every wall-clock time of the day
TimeOfDayCalls ==
    { [fn |-> "getTimeOfDayConfig", args |-> <<[override |-> <<h>>, now |-> 1234]>>] :
        h \in 0..DayLength }
    \cup
    { [fn |-> "getTimeOfDayConfig", args |-> <<[override |-> <<>>, now |-> h]>>] :
        h \in 0..(DayLength - 1) }

Calls == ComputeGrowthCalls \cup TimeOfDayCalls \cup BadgeCalls \cup GardenCalls

InitCalls ==
    /\ StageIdle /\ SceneIdle /\ TreeIdle /\ AppIdle
    /\ \E c \in Calls : fn = c.fn /\ args = c.args
    /\ rets = <<>>

\* the next call of computeGrowth
CallComputeGrowth ==
    /\ fn = "computeGrowth"
    /\ Len(rets) < Len(args)
    /\ rets' = Append(rets, computeGrowthCall(args[Len(rets) + 1]))
    /\ UNCHANGED <<fn, args>>
    /\ UNCHANGED <<stageVars, sceneVars, treeVars, appVars>>

\* the next call of getTimeOfDayConfig
CallGetTimeOfDayConfig ==
    /\ fn = "getTimeOfDayConfig"
    /\ Len(rets) < Len(args)
    /\ LET arg == args[Len(rets) + 1]
       IN  rets' = Append(rets, Returned(getTimeOfDayConfig(arg.override, arg.now)))
    /\ UNCHANGED <<fn, args>>
    /\ UNCHANGED <<stageVars, sceneVars, treeVars, appVars>>

\* the next call of buildBadgeMarkers
CallBuildBadgeMarkers ==
    /\ fn = "buildBadgeMarkers"
    /\ Len(rets) < Len(args)
    /\ rets' = Append(rets, Returned(buildBadgeMarkersCall(args[Len(rets) + 1])))
    /\ UNCHANGED <<fn, args>>
    /\ UNCHANGED <<stageVars, sceneVars, treeVars, appVars>>

\* the next call of buildGarden
CallBuildGarden ==
    /\ fn = "buildGarden"
    /\ Len(rets) < Len(args)
    /\ LET arg == args[Len(rets) + 1]
       IN  rets' = Append(rets, Returned(buildGardenCall(arg.totalMinutes, arg.dayStreak)))
    /\ UNCHANGED <<fn, args>>
    /\ UNCHANGED <<stageVars, sceneVars, treeVars, appVars>>

NextCalls ==
    \/ CallComputeGrowth
    \/ CallGetTimeOfDayConfig
    \/ CallBuildBadgeMarkers
    \/ CallBuildGarden

SpecCalls == InitCalls /\ [][NextCalls]_vars

(***************************************************************************)
(* treeLogic.js, lines 117-396: the AppProvider and its reducer.           *)
(* A date string (toDateString) is the number of its calendar day; null is *)
(* <<>> and a value v is <<v>>.  new Date(str) gives the midnight of that  *)
(* day, so that (today - lastReview) / 86400000 is the difference of the   *)
(* day numbers (no change of the zone offset in the days explored).        *)
(* A memo entry is [versesMemorized, lastReviewDate, status]; the field    *)
(* verseConfidence it does not have reads as undefined, <<>>.              *)
(***************************************************************************)
\* the calendar days on which something is dispatched
Days == {1, 2, 9, 10}

FirstDay == CHOOSE d \in Days : \A e \in Days : d <= e

\* lines 123-136; todayDate is the day on which the module was loaded
initialState ==
    [totalPages |-> 0, totalMinutes |-> 0, todayMinutes |-> 0,
     todayDate |-> FirstDay, dayStreak |-> 0, lastReadDate |-> <<>>,
     khatms |-> 0, khatmPage |-> 1, memo |-> EmptyMemo, loaded |-> FALSE]

\* line 159
DECAY_DAYS == 7

MemoEntry(verses, lastReviewDate, status) ==
    <<[versesMemorized |-> verses, lastReviewDate |-> lastReviewDate,
       status |-> status, verseConfidence |-> <<>>]>>

\* memo[surahId] = entry on a copy of memo
MemoPut(memo, surahId, entry) ==
    [k \in DOMAIN memo \cup {surahId} |-> IF k = surahId THEN entry ELSE memo[k]]

\* lines 161-173
checkMemoDecay(memo, todayStr) ==
    [surahId \in DOMAIN memo |->
        LET entry == memo[surahId]
        IN  IF entry = <<>> \/ entry[1].lastReviewDate = <<>> THEN entry
            ELSE LET daysSince == todayStr - entry[1].lastReviewDate[1]
                 IN  IF entry[1].status = "complete" /\ daysSince > DECAY_DAYS
                     THEN <<[entry[1] EXCEPT !.status = "decayed"]>>
                     ELSE entry]

\* lines 138-156, now being the day of new Date()
ensureToday(s, now) ==
    IF s.todayDate = now THEN s
    ELSE LET yesterday == now - 1
             keptStreak == s.lastReadDate = <<yesterday>>
         IN  [s EXCEPT !.todayDate = now,
                       !.todayMinutes = 0,
                       !.dayStreak = IF keptStreak THEN s.dayStreak ELSE 0,
                       !.memo = checkMemoDecay(s.memo, now)]

\* lines 177-178; payload is <<>> for {} and <<stored>> for a saved state, which
\* has every key of initialState
LOAD_STATE(payload, now) ==
    ensureToday([(IF payload = <<>> THEN initialState ELSE payload[1])
                    EXCEPT !.loaded = TRUE], now)

\* lines 180-190
ADD_PAGE(st, now) ==
    LET s == ensureToday(st, now)
        newTotal == s.totalPages + 1
    IN  [s EXCEPT !.totalPages = newTotal,
                  !.khatms = getKhatmCount(newTotal),
                  !.lastReadDate = <<s.todayDate>>,
                  !.dayStreak = IF s.dayStreak = 0 THEN 1 ELSE s.dayStreak]

\* lines 192-202
ADD_MINUTES(st, mins, now) ==
    LET s == ensureToday(st, now)
    IN  [s EXCEPT !.totalMinutes = s.totalMinutes + mins,
                  !.todayMinutes = s.todayMinutes + mins,
                  !.lastReadDate = <<s.todayDate>>,
                  !.dayStreak = IF s.dayStreak = 0 THEN 1 ELSE s.dayStreak]

\* lines 204-205
SET_KHATM_PAGE(st, page) == [st EXCEPT !.khatmPage = page]

\* lines 208-226
MEMO_START(st, surahId, now) ==
    IF surahId \notin DOMAIN st.memo \/ st.memo[surahId] = <<>>
       \/ st.memo[surahId][1].status = "decayed"
    THEN [st EXCEPT !.memo = MemoPut(@, surahId, MemoEntry({}, <<now>>, "active"))]
    ELSE st

\* lines 229-249; versesMemorized is kept sorted and without duplicates: a set
MEMO_VERSE(st, surahId, verseNum, totalVerses, now) ==
    IF surahId \notin DOMAIN st.memo \/ st.memo[surahId] = <<>> THEN st
    ELSE LET entry == st.memo[surahId][1]
             verses == entry.versesMemorized \cup {verseNum}
             isComplete == Cardinality(verses) >= totalVerses
         IN  [st EXCEPT !.memo = MemoPut(@, surahId,
                <<[entry EXCEPT !.versesMemorized = verses,
                                !.lastReviewDate = <<now>>,
                                !.status = IF isComplete THEN "complete"
                                           ELSE "active"]>>)]

\* lines 252-266
MEMO_UNVERSE(st, surahId, verseNum, now) ==
    IF surahId \notin DOMAIN st.memo \/ st.memo[surahId] = <<>> THEN st
    ELSE LET entry == st.memo[surahId][1]
             verses == entry.versesMemorized \ {verseNum}
         IN  [st EXCEPT !.memo = MemoPut(@, surahId,
                <<[entry EXCEPT !.versesMemorized = verses,
                                !.lastReviewDate = <<now>>,
                                !.status = "active"]>>)]

\* lines 269-282
MEMO_REVIEW(st, surahId, now) ==
    IF surahId \notin DOMAIN st.memo \/ st.memo[surahId] = <<>> THEN st
    ELSE LET entry == st.memo[surahId][1]
         IN  [st EXCEPT !.memo = MemoPut(@, surahId,
                <<[entry EXCEPT !.lastReviewDate = <<now>>,
                                !.status = IF entry.status = "decayed"
                                           THEN "active" ELSE entry.status]>>)]

\* lines 285-290
MEMO_REMOVE(st, surahId) ==
    [st EXCEPT !.memo = [k \in DOMAIN st.memo \ {surahId} |-> st.memo[k]]]

\* lines 292-293
RESET == [initialState EXCEPT !.loaded = TRUE]

(***************************************************************************)
(* The provider: the load effect and the dispatchers of the context value. *)
(***************************************************************************)
\* what AsyncStorage holds at mount: nothing, or a state saved on the first
\* day by an earlier session one page short of a khatm, whose memo has an
\* entry of another schema, without lastReviewDate
StoredState ==
    [initialState EXCEPT !.totalPages = 603, !.dayStreak = 1,
                         !.lastReadDate = <<FirstDay>>,
                         !.memo = [k \in {2} |-> MemoEntry({1}, <<>>, "complete")]]

Payloads == {<<>>, <<StoredState>>}

\* the totals from which a further page is read
ReadFrom == {0, 603, 604}

MaxAppMinutes == 30
MinuteInputs == {-5, 0, 30}
KhatmPages == {1, 2}
\* the surahs explored have 2 verses each
Surahs == {1, 2}
Verses == {1, 2}
TotalVerses == Cardinality(Verses)

InitApp ==
    /\ StageIdle /\ SceneIdle /\ TreeIdle /\ CallsIdle
    /\ appState = initialState
    /\ today = FirstDay

\* lines 314-335: the load effect dispatches LOAD_STATE once
LoadState ==
    /\ ~appState.loaded
    /\ \E payload \in Payloads : appState' = LOAD_STATE(payload, today)
    /\ UNCHANGED today
    /\ UNCHANGED <<stageVars, sceneVars, treeVars, callVars>>

\* lines 343-345
addPage ==
    /\ appState.totalPages \in ReadFrom
    /\ appState' = ADD_PAGE(appState, today)
    /\ UNCHANGED today
    /\ UNCHANGED <<stageVars, sceneVars, treeVars, callVars>>

\* variant: ADD_MINUTES dispatched whatever mins is
addMinutes_unguarded(mins) ==
    /\ appState.totalMinutes + mins <= MaxAppMinutes
    /\ appState' = ADD_MINUTES(appState, mins, today)
    /\ UNCHANGED today
    /\ UNCHANGED <<stageVars, sceneVars, treeVars, callVars>>

\* lines 347-349
addMinutes(mins) ==
    /\ appState.totalMinutes + mins <= MaxAppMinutes
    /\ appState' = IF mins > 0 THEN ADD_MINUTES(appState, mins, today) ELSE appState
    /\ UNCHANGED today
    /\ UNCHANGED <<stageVars, sceneVars, treeVars, callVars>>

\* lines 351-353
setKhatmPage(page) ==
    /\ appState' = SET_KHATM_PAGE(appState, page)
    /\ UNCHANGED today
    /\ UNCHANGED <<stageVars, sceneVars, treeVars, callVars>>

\* lines 355-357
memoStart(surahId) ==
    /\ appState' = MEMO_START(appState, surahId, today)
    /\ UNCHANGED today
    /\ UNCHANGED <<stageVars, sceneVars, treeVars, callVars>>

\* lines 359-361
memoVerse(surahId, verseNum, totalVerses) ==
    /\ appState' = MEMO_VERSE(appState, surahId, verseNum, totalVerses, today)
    /\ UNCHANGED today
    /\ UNCHANGED <<stageVars, sceneVars, treeVars, callVars>>

\* lines 363-365
memoUnverse(surahId, verseNum) ==
    /\ appState' = MEMO_UNVERSE(appState, surahId, verseNum, today)
    /\ UNCHANGED today
    /\ UNCHANGED <<stageVars, sceneVars, treeVars, callVars>>

\* lines 367-369
memoReview(surahId) ==
    /\ appState' = MEMO_REVIEW(appState, surahId, today)
    /\ UNCHANGED today
    /\ UNCHANGED <<stageVars, sceneVars, treeVars, callVars>>

\* lines 371-373
memoRemove(surahId) ==
    /\ appState' = MEMO_REMOVE(appState, surahId)
    /\ UNCHANGED today
    /\ UNCHANGED <<stageVars, sceneVars, treeVars, callVars>>

\* lines 375-377
resetProgress ==
    /\ appState' = RESET
    /\ UNCHANGED today
    /\ UNCHANGED <<stageVars, sceneVars, treeVars, callVars>>

\* midnight passes; the days between two explored days pass without a dispatch
NextDay ==
    /\ \E d \in Days : d > today /\ today' = d
    /\ UNCHANGED appState
    /\ UNCHANGED <<stageVars, sceneVars, treeVars, callVars>>

NextApp ==
    \/ LoadState
    \/ addPage
    \/ \E mins \in MinuteInputs : addMinutes(mins)
    \/ \E page \in KhatmPages : setKhatmPage(page)
    \/ \E surahId \in Surahs : memoStart(surahId)
    \/ \E surahId \in Surahs, verseNum \in Verses :
          memoVerse(surahId, verseNum, TotalVerses)
    \/ \E surahId \in Surahs, verseNum \in Verses : memoUnverse(surahId, verseNum)
    \/ \E surahId \in Surahs : memoReview(surahId)
    \/ \E surahId \in Surahs : memoRemove(surahId)
    \/ resetProgress
    \/ NextDay

SpecApp == InitApp /\ [][NextApp]_vars



(***************************************************************************)
(* C1: for all non-negative (totalPages, khatms), getTreeStage returns a   *)
(* stage whose two thresholds are both <= the arguments, and no later      *)
(* stage of TREE_STAGES has both thresholds satisfied as well.             *)
(***************************************************************************)
C1_LastQualifyingStage ==
    stageOut # 0 =>
        /\ stageOut \in 1..Len(TREE_STAGES)
        /\ TREE_STAGES[stageOut].minPages <= totalPages
        /\ TREE_STAGES[stageOut].minKhatms <= khatms
        /\ \A j \in (stageOut + 1)..Len(TREE_STAGES) :
              ~(TREE_STAGES[j].minPages <= totalPages
                /\ TREE_STAGES[j].minKhatms <= khatms)

\* a call that skipped an earlier qualifying stage and returned Full Bloom
C1_Witness ==
    stageOut = 4 /\ totalPages >= 604 /\ khatms \in 3..9

(***************************************************************************)
(* C2: getProgressToNextStage returns p with 0 <= p <= 1, and exactly 1    *)
(* whenever getTreeStage of the same arguments is the terminal stage.      *)
(***************************************************************************)
C2_ProgressBounds ==
    progressOut # <<>> =>
        /\ progressOut[2] > 0
        /\ 0 <= progressOut[1]
        /\ progressOut[1] <= progressOut[2]
        /\ (stageOut = Len(TREE_STAGES) => progressOut = <<1, 1>>)

\* a call in the khatm-fraction branch (Full Bloom, 6 of the 7 khatms to go
\* done) and a call at the terminal stage
C2_Witness ==
    /\ progressOut # <<>> /\ stageOut = 4 /\ khatms = 9
    /\ REq(progressOut, <<6, 7>>)

C2_WitnessTerminal ==
    progressOut = <<1, 1>> /\ stageOut = 5

(***************************************************************************)
(* Claims about the Scene Composer (SpecScene)                             *)
(***************************************************************************)
\* the scene graph held by sceneRef
Scene == IF sceneRef = <<>> THEN {} ELSE sceneRef[1]

\* the hour the Sky Model would be fed now, and whether it is night
HourNow == getTimeOfDayConfig(timeOverride, clock)

C4_TreeBuiltFromSnapshot ==
    (sceneRef # <<>> /\ treeRef # <<>> /\ overrideGrowth = <<>>) =>
        /\ <<"tree", treeRef[1].id>> \in Scene
        /\ treeRef[1].params = computeGrowth(state)

(***************************************************************************)
(* C5: the Garden group in the scene is the one built from the current     *)
(* totalMinutes and dayStreak and the Badge group the one built from the   *)
(* current khatms, in every mode, the developer override included.         *)
(***************************************************************************)
C5_GardenBadgesBuiltFromSnapshot ==
    (sceneRef # <<>> /\ gardenRef # <<>> /\ badgesRef # <<>>) =>
        /\ <<"garden", gardenRef[1].id>> \in Scene
        /\ gardenRef[1].built = buildGarden(state.totalMinutes, state.dayStreak)
        /\ <<"badges", badgesRef[1].id>> \in Scene
        /\ badgesRef[1].built = buildBadgeMarkers(state.khatms)

(***************************************************************************)
(* C6: at every frame after initialisation, stars, fireflies and the       *)
(* firefly point lights are all in the scene if the current hour (the      *)
(* override, or the wall clock when there is none) is night, and none of   *)
(* them is if it is day.                                                   *)
(***************************************************************************)
NightElementsIn ==
    /\ Count(Scene, "stars") = 1
    /\ Count(Scene, "fireflies") = 1
    /\ Count(Scene, "ffLight") = FF_LIGHT_COUNT

NightElementsOut ==
    /\ Count(Scene, "stars") = 0
    /\ Count(Scene, "fireflies") = 0
    /\ Count(Scene, "ffLight") = 0

C6_NightElementsFollowHour ==
    (mounted /\ rafPending # <<>>) =>
        IF HourNow.isNight THEN NightElementsIn ELSE NightElementsOut

(***************************************************************************)
(* C7: after the unmount cleanup the scheduled frame callback is cancelled *)
(* and no frame callback runs any more.                                    *)
(***************************************************************************)
C7_NoFrameAfterUnmount ==
    ~mounted => (rafPending = <<>> /\ framesAfterUnmount = 0)

(***************************************************************************)
(* C8: for any GrowthParameters, malformed ones included, buildTree        *)
(* terminates: the spawn loop of a branch always exits, the while loop     *)
(* takes at most 2000 segments from the queue and builds at most 2000      *)
(* meshes, and on reaching the cap the group built so far is returned.     *)
(***************************************************************************)
C8_TerminatesWithinCap ==
    /\ pc # "diverged"
    /\ safetyIter <= SafetyCap + 1
    /\ Len(group.meshes) <= SafetyCap

\* the memo entries whose status is not 'decayed'
NonDecayed(memo) ==
    {k \in DOMAIN memo : memo[k] # <<>> /\ memo[k][1].status # "decayed"}

\* the verses of an entry rated 'good', or the legacy versesMemorized length
GoodVerses(e) ==
    IF e.verseConfidence # <<>>
    THEN Cardinality({c \in e.verseConfidence[1] : c[2] = "good"})
    ELSE Cardinality(e.versesMemorized)

(***************************************************************************)
(* C9 as stated: when buildTree has returned, the number of fruit/blossom  *)
(* decorations equals the number of non-decayed memo entries of the        *)
(* snapshot if terminalTips has an element, and is 0 if it has none.       *)
(***************************************************************************)
C9_FruitCountEqualsMemo ==
    pc = "returned" =>
        IF terminalTips # <<>>
        THEN Len(group.fruits) = Cardinality(NonDecayed(input.state.memo))
        ELSE group.fruits = <<>>

(***************************************************************************)
(* C9 amended: a tree built from the snapshot (no override) with at least  *)
(* one terminal tip carries one decoration per non-decayed memo entry, in  *)
(* the order of the entries: its FruitDescriptor has the entry's status    *)
(* and its count of 'good' verses (or legacy length), the decoration is a  *)
(* fruit iff the status is 'complete' and sits on a recorded tip.  A tree  *)
(* built from a developer override, which has no fruits list, and a tree   *)
(* without terminal tips carry no decoration.                              *)
(***************************************************************************)
C9_FruitsOfSnapshot ==
    pc = "returned" =>
        IF terminalTips # <<>> /\ input.overrideGrowth = <<>>
        THEN LET memo == input.state.memo
                 keys == SortedKeys(NonDecayed(memo))
             IN  /\ Len(group.fruits) = Len(keys)
                 /\ Len(params.fruits) = Len(keys)
                 /\ \A i \in 1..Len(keys) :
                      LET e == memo[keys[i]][1]
                          f == params.fruits[i]
                          m == group.fruits[i]
                      IN  /\ f.surahId = keys[i]
                          /\ f.status = e.status
                          /\ f.progress = GoodVerses(e)
                          /\ m.surahId = keys[i]
                          /\ (m.kind = "fruit") = (e.status = "complete")
                          /\ m.kind \in {"fruit", "blossom"}
                          /\ m.tip \in {terminalTips[j] : j \in 1..Len(terminalTips)}
        ELSE group.fruits = <<>>

\* a tree built from a snapshot with three memo entries, one of them decayed:
\* a fruit and a blossom were placed
C9_Witness ==
    /\ pc = "returned" /\ input.overrideGrowth = <<>>
    /\ Cardinality(DOMAIN input.state.memo) = 3
    /\ Len(terminalTips) >= 2
    /\ Len(group.fruits) = 2
    /\ group.fruits[1].kind = "fruit" /\ group.fruits[2].kind = "blossom"

(***************************************************************************)
(* C10: the second call of buildTree on the same arguments returns what    *)
(* the first call returned: the same GrowthParameters, the same sequence   *)
(* of segments (origin, direction, length, radius, level, and the          *)
(* generator state of their vertices), the same leaves, flowers and        *)
(* decorations, and the same terminal tips, whatever the first call left   *)
(* in its locals.                                                          *)
(***************************************************************************)
C10_SecondRunIdentical ==
    (run = 2 /\ pc = "returned" /\ input.again = <<>>) =>
        /\ params = first[1].params
        /\ group = first[1].group
        /\ terminalTips = first[1].terminalTips

\* a second call has returned a tree of several branches with leaves
C10_Witness ==
    /\ run = 2 /\ pc = "returned" /\ input.again = <<>>
    /\ Len(group.meshes) >= 4
    /\ Len(terminalTips) >= 2
    /\ group.leaves # <<>>
    /\ \E i \in 1..Len(group.meshes) : group.meshes[i].direction[6] >= 0

(***************************************************************************)
(* C11: computeGrowth is monotone in totalPages: of two snapshots that     *)
(* differ only in totalPages, p1 <= p2, the second has growth, trunkLength *)
(* and trunkRadius each >= those of the first.                             *)
(***************************************************************************)
C11_GrowthMonotoneInPages ==
    (fn = "computeGrowth" /\ Len(rets) = 2) =>
        LET a == rets[1].value[1]
            b == rets[2].value[1]
        IN  ToNumber(args[1].totalPages) <= ToNumber(args[2].totalPages) =>
                /\ Leq(a.growth, b.growth)
                /\ Leq(a.trunkLength, b.trunkLength)
                /\ Leq(a.trunkRadius, b.trunkRadius)

\* two calls across the 604-page cap: more pages, strictly more growth before the
\* cap is reached
C11_Witness ==
    /\ fn = "computeGrowth" /\ Len(rets) = 2
    /\ ToNumber(args[1].totalPages) = 603 /\ ToNumber(args[2].totalPages) = 663
    /\ ToNumber(args[1].khatms) = 1
    /\ Less(rets[1].value[1].growth, rets[2].value[1].growth)
    /\ Less(rets[1].value[1].trunkRadius, rets[2].value[1].trunkRadius)

(***************************************************************************)
(* C16: computeGrowth never raises on a partial snapshot: with any of the  *)
(* numeric fields missing or null and memo missing, null, empty or holding *)
(* null entries it returns the parameters of the snapshot in which the     *)
(* missing numbers are 0 and a missing memo is the empty mapping.          *)
(***************************************************************************)
C16_ZeroFilled(snapshot) ==
    [ totalPages   |-> IF snapshot.totalPages \in {Undefined, Null} THEN 0
                       ELSE snapshot.totalPages[2],
      totalMinutes |-> IF snapshot.totalMinutes \in {Undefined, Null} THEN 0
                       ELSE snapshot.totalMinutes[2],
      dayStreak    |-> IF snapshot.dayStreak \in {Undefined, Null} THEN 0
                       ELSE snapshot.dayStreak[2],
      khatms       |-> IF snapshot.khatms \in {Undefined, Null} THEN 0
                       ELSE snapshot.khatms[2],
      memo         |-> IF snapshot.memo \in {Undefined, Null} THEN EmptyMemo
                       ELSE snapshot.memo[2] ]

C16_NeverRaises ==
    fn = "computeGrowth" =>
        \A i \in 1..Len(rets) :
            /\ rets[i].threw = <<>>
            /\ rets[i].value = <<computeGrowth(C16_ZeroFilled(args[i]))>>

\* what does hold: the call returns the zero-filled parameters unless memo is null
C16_RaisesOnlyOnNullMemo ==
    fn = "computeGrowth" =>
        \A i \in 1..Len(rets) :
            IF args[i].memo = Null
            THEN rets[i] = Threw("TypeError")
            ELSE rets[i] = Returned(computeGrowth(C16_ZeroFilled(args[i])))

(***************************************************************************)
(* C12: getTimeOfDayConfig classifies an hour h in [0,24) as night iff     *)
(* h < 6 or h >= 19.5, and as day otherwise: 5.99 is night, 6.0 is day,    *)
(* 19.49 is day and 19.5 is night.                                         *)
(***************************************************************************)
\* the hour h of a call: the override when there is one, else the wall clock
HourOf(arg) == IF arg.override # <<>> THEN arg.override[1] ELSE arg.now

C12_NightIffOutsideDay ==
    (fn = "getTimeOfDayConfig" /\ Len(rets) = 1) =>
        LET h     == HourOf(args[1])
            night == rets[1].value[1].isNight
        IN  (0 <= h /\ h < DayLength) =>
                /\ night <=> (h < 600 \/ h >= 1950)
                /\ (h = 599 => night) /\ (h = 600 => ~night)
                /\ (h = 1949 => ~night) /\ (h = 1950 => night)

\* the call at 6.0 h sharp, classified as day
C12_Witness ==
    /\ fn = "getTimeOfDayConfig" /\ Len(rets) = 1
    /\ HourOf(args[1]) = 600 /\ args[1].override # <<>>
    /\ ~rets[1].value[1].isNight

(***************************************************************************)
(* C13: for every hour h in [0,24) getTimeOfDayConfig takes the two        *)
(* consecutive TIME_KEYS rows a, b with a.hour <= h < b.hour and returns   *)
(* every keyframe field as a + (b - a) * t, t = (h - a.hour) / (b.hour -   *)
(* a.hour) in [0,1); at a keyframe hour the fields are the keyframe's, at  *)
(* the midpoint of two keyframes ambientIntensity is the mean of the two.  *)
(***************************************************************************)
\* a * (1 - t) + b * t
C13_Mix(x, y, t) == RAdd(RMul(x, RSub(RInt(1), t)), RMul(y, t))
C13_MixColor(x, y, t) == [c \in 1..3 |-> C13_Mix(Color(x)[c], Color(y)[c], t)]

C13_Interpolates ==
    (fn = "getTimeOfDayConfig" /\ Len(rets) = 1) =>
        LET h   == HourOf(args[1])
            cfg == rets[1].value[1]
        IN  (0 <= h /\ h < DayLength) =>
              \E i \in 1..(Len(TIME_KEYS) - 1) :
                LET a == TIME_KEYS[i]
                    b == TIME_KEYS[i + 1]
                    t == RNorm(<<h - a[1], b[1] - a[1]>>)
                IN  /\ a[1] <= h /\ h < b[1]
                    /\ RLe(RInt(0), t) /\ RLt(t, RInt(1))
                    /\ cfg.bgColor = C13_MixColor(a[2], b[2], t)
                    /\ cfg.fogColor = C13_MixColor(a[3], b[3], t)
                    /\ cfg.skyHemi = C13_MixColor(a[4], b[4], t)
                    /\ cfg.groundHemi = C13_MixColor(a[5], b[5], t)
                    /\ cfg.ambientIntensity = C13_Mix(a[6], b[6], t)
                    /\ cfg.sunColor = C13_MixColor(a[7], b[7], t)
                    /\ cfg.sunIntensity = C13_Mix(a[8], b[8], t)
                    /\ (h = a[1] =>
                          /\ cfg.bgColor = Color(a[2]) /\ cfg.fogColor = Color(a[3])
                          /\ cfg.skyHemi = Color(a[4]) /\ cfg.groundHemi = Color(a[5])
                          /\ cfg.ambientIntensity = a[6]
                          /\ cfg.sunColor = Color(a[7]) /\ cfg.sunIntensity = a[8])
                    /\ (2 * h = a[1] + b[1] =>
                          cfg.ambientIntensity = RMul(RAdd(a[6], b[6]), Dec(1, 2)))

\* 8:30 by the wall clock, midway between the keyframes of 7 h and 10 h:
\* ambientIntensity is (0.45 + 0.55) / 2
C13_Witness ==
    /\ fn = "getTimeOfDayConfig" /\ Len(rets) = 1
    /\ args[1].override = <<>> /\ args[1].now = 850
    /\ rets[1].value[1].ambientIntensity = Dec(1, 2)

(***************************************************************************)
(* C14: the documented stage requirements: the stage returned is at least  *)
(* Sprout when totalPages >= 20, at least Young Tree when totalPages >=    *)
(* 100, at least Full Bloom when khatms >= 3, Ancient Tree when khatms >=  *)
(* 10, and Seed only when totalPages < 20.                                 *)
(***************************************************************************)
C14_DocumentedRequirements ==
    stageOut # 0 =>
        /\ (totalPages >= 20 => stageOut >= 2)
        /\ (totalPages >= 100 => stageOut >= 3)
        /\ (khatms >= 3 => stageOut >= 4)
        /\ (khatms >= 10 => stageOut = 5)
        /\ (stageOut = 1 => totalPages < 20)

\* what does hold: the page requirements, and the khatm requirements once 604
\* pages are read
C14_RequirementsWithPages ==
    stageOut # 0 =>
        /\ (totalPages >= 20 => stageOut >= 2)
        /\ (totalPages >= 100 => stageOut >= 3)
        /\ ((khatms >= 3 /\ totalPages >= 604) => stageOut >= 4)
        /\ ((khatms >= 10 /\ totalPages >= 604) => stageOut = 5)
        /\ (stageOut = 1 => totalPages < 20)

(***************************************************************************)
(* C18: among the badge markers, the marker of the k-th completed khatm    *)
(* (k = 1..min(khatms, 12)) carries the accent style if and only if k is a *)
(* multiple of 5 (the 5th and the 10th khatm).                             *)
(***************************************************************************)
C18_AccentOnMultiplesOfFive ==
    (fn = "buildBadgeMarkers" /\ Len(rets) = 1) =>
        LET stones == rets[1].value[1]
        IN  \A k \in 1..Len(stones) : stones[k].isSpecial <=> (k % 5 = 0)

\* what does hold: the accent is on the stones 1, 6 and 11
C18_AccentOnFirstOfFive ==
    (fn = "buildBadgeMarkers" /\ Len(rets) = 1) =>
        LET stones == rets[1].value[1]
        IN  \A k \in 1..Len(stones) : stones[k].isSpecial <=> (k % 5 = 1)

(***************************************************************************)
(* C19: buildBadgeMarkers(khatms) emits exactly min(khatms, 12) markers, 0 *)
(* when khatms is 0 or missing; marker i (0-based) is at angle 2 pi i /    *)
(* count on a circle of radius 1.9 for even i and 2.2 for odd i, so no two *)
(* markers share a position.                                               *)
(***************************************************************************)
C19_BadgeRing ==
    (fn = "buildBadgeMarkers" /\ Len(rets) = 1) =>
        LET stones == rets[1].value[1]
            k      == args[1]
            count  == IF k \in {Undefined, Null} THEN 0
                      ELSE IF k[2] < 12 THEN k[2] ELSE 12
        IN  /\ Len(stones) = count
            /\ \A i \in 0..(count - 1) :
                  /\ stones[i + 1].angle[1] * count = i * stones[i + 1].angle[2]
                  /\ stones[i + 1].r = IF i % 2 = 0 THEN Dec(19, 10) ELSE Dec(22, 10)
            /\ \A i, j \in 1..count :
                  i # j => <<stones[i].angle, stones[i].r>> # <<stones[j].angle, stones[j].r>>

\* 14 khatms: the ring is capped at 12 stones, the last at 11/12 of the turn
C19_Witness ==
    /\ fn = "buildBadgeMarkers" /\ Len(rets) = 1
    /\ args[1] = Num(14)
    /\ Len(rets[1].value[1]) = 12
    /\ rets[1].value[1][12].angle = <<11, 12>>
    /\ rets[1].value[1][12].r = Dec(22, 10)

(***************************************************************************)
(* C20: the garden layout depends on totalMinutes only through its level   *)
(* (0 below 30, 1 for 30..119, 2 for 120..299, 3 for 300..599, 4 from 600):*)
(* two calls of buildGarden with minutes of the same level give the same   *)
(* numbers of grass tufts (0/10/22/36/54), wildflowers (0/0/6/12/20) and   *)
(* shrubs (0/0/0/2/5) at identical positions, whatever the dayStreak       *)
(* values, which affect colour only.                                       *)
(***************************************************************************)
C20_Level(m) ==
    IF m < 30 THEN 0 ELSE IF m < 120 THEN 1 ELSE IF m < 300 THEN 2
    ELSE IF m < 600 THEN 3 ELSE 4

C20_LayoutByLevel ==
    (fn = "buildGarden" /\ Len(rets) = 2) =>
        LET g1 == rets[1].value[1]
            g2 == rets[2].value[1]
            l1 == C20_Level(args[1].totalMinutes)
        IN  /\ Len(g1.grass) = <<0, 10, 22, 36, 54>>[l1 + 1]
            /\ Len(g1.flowers) = <<0, 0, 6, 12, 20>>[l1 + 1]
            /\ Len(g1.shrubs) = <<0, 0, 0, 2, 5>>[l1 + 1]
            /\ (l1 = C20_Level(args[2].totalMinutes) =>
                  /\ g1.grass = g2.grass
                  /\ g1.flowers = g2.flowers
                  /\ g1.shrubs = g2.shrubs)

\* 300 and 599 minutes with streaks 15 and 45: the same 36 tufts, 12 flowers and
\* 2 shrubs, in different colours
C20_Witness ==
    /\ fn = "buildGarden" /\ Len(rets) = 2
    /\ args[1] = [totalMinutes |-> 300, dayStreak |-> Num(15)]
    /\ args[2] = [totalMinutes |-> 599, dayStreak |-> Num(45)]
    /\ Len(rets[1].value[1].grass) = 36
    /\ rets[1].value[1].shrubs = rets[2].value[1].shrubs
    /\ rets[1].value[1].vibrancy # rets[2].value[1].vibrancy

(***************************************************************************)
(* C15: whenever params.growth < 0.01 buildTree returns a group holding    *)
(* only the soil disc and the embryo marker (no branch mesh, leaf, bloom   *)
(* or fruit) and the work queue is never started; snapshot {0, 0} gives    *)
(* stage Seed and the embryo-only tree, {604, 3} gives Full Bloom with     *)
(* hasBloom true, {604, 10} gives Ancient Tree.                            *)
(***************************************************************************)
\* the stage key of a snapshot ("seed" is labelled Seed, "fullBloom" Full Bloom,
\* "ancientTree" Ancient Tree)
C15_StageOf(st) == TREE_STAGES[getTreeStage(st.totalPages, st.khatms)].stage

C15_SeedShortcut ==
    pc = "returned" =>
        /\ RLt(params.growth, Dec(1, 100)) =>
              /\ group = [ground |-> TRUE, seed |-> TRUE, meshes |-> <<>>,
                          leaves |-> <<>>, blooms |-> <<>>, fruits |-> <<>>]
              /\ queue = <<>> /\ safetyIter = 0 /\ terminalTips = <<>>
        /\ ~RLt(params.growth, Dec(1, 100)) => (~group.seed /\ group.meshes # <<>>)
        /\ input.overrideGrowth = <<>> =>
              /\ (ArgState.totalPages = 0 /\ ArgState.khatms = 0) =>
                    /\ C15_StageOf(ArgState) = "seed"
                    /\ group.seed /\ group.meshes = <<>>
              /\ (ArgState.totalPages = 604 /\ ArgState.khatms = 3) =>
                    /\ C15_StageOf(ArgState) = "fullBloom"
                    /\ params.hasBloom
              /\ (ArgState.totalPages = 604 /\ ArgState.khatms = 10) =>
                    C15_StageOf(ArgState) = "ancientTree"

\* 10 pages, 600 minutes and two live memo entries: growth is just below 0.01
\* and the call returned the embryo alone
C15_Witness ==
    /\ pc = "returned" /\ input.overrideGrowth = <<>>
    /\ input.state.totalPages = 10
    /\ params.growth # RInt(0) /\ Len(params.fruits) = 2
    /\ group.seed /\ group.meshes = <<>> /\ group.fruits = <<>>

(***************************************************************************)
(* C17: the same growth value always produces the same tree shape: for two *)
(* snapshots whose computed growth is equal, buildTree produces the same   *)
(* sequence of branch segments (origin, direction, length, radius, level). *)
(***************************************************************************)
Segments(meshes) ==
    [i \in 1..Len(meshes) |->
        <<meshes[i].origin, meshes[i].direction, meshes[i].length,
          meshes[i].radius, meshes[i].level>>]

C17_SameGrowthSameShape ==
    (run = 2 /\ pc = "returned" /\ params.growth = first[1].params.growth) =>
        Segments(group.meshes) = Segments(first[1].group.meshes)

\* what does hold: equal growth gives trunks of the same length and radius
C17_SameGrowthSameTrunk ==
    (run = 2 /\ pc = "returned" /\ params.growth = first[1].params.growth
     /\ group.meshes # <<>>) =>
        /\ group.meshes[1].length = first[1].group.meshes[1].length
        /\ group.meshes[1].radius = first[1].group.meshes[1].radius

(***************************************************************************)
(* C30: stage label and embryo rendering agree: for every snapshot with    *)
(* non-negative integer totalPages and khatms on which buildTree takes the *)
(* seed shortcut (computed growth < 0.01), getTreeStage(totalPages,        *)
(* khatms) is the Seed stage.                                              *)
(***************************************************************************)
C30_Snapshot ==
    [totalPages |-> totalPages, totalMinutes |-> 0, dayStreak |-> 0,
     khatms |-> khatms, memo |-> EmptyMemo]

C30_EmbryoIsSeedStage ==
    (stageOut # 0 /\ IsSeed(computeGrowth(C30_Snapshot))) =>
        TREE_STAGES[stageOut].stage = "seed"

\* 10 pages: growth is 6/604, not zero and below 0.01, and the stage returned
\* is the first one
C30_Witness ==
    /\ stageOut # 0 /\ totalPages = 10 /\ khatms = 0
    /\ computeGrowth(C30_Snapshot).growth # RInt(0)
    /\ IsSeed(computeGrowth(C30_Snapshot))
    /\ TREE_STAGES[stageOut].stage = "seed"

(***************************************************************************)
(* C26: branch geometry does not depend on foliage inputs: two snapshots   *)
(* with the same totalPages and khatms that differ only in totalMinutes,   *)
(* dayStreak or memo give the same sequence of branch segments (origin,    *)
(* direction, length, radius, level) and the same terminal tips.           *)
(***************************************************************************)
C26_SameBranchInputs ==
    /\ run = 2 /\ pc = "returned"
    /\ input.overrideGrowth = <<>> /\ input.again # <<>>
    /\ input.again[1].totalPages = input.state.totalPages
    /\ input.again[1].khatms = input.state.khatms

C26_BranchesIgnoreFoliageInputs ==
    C26_SameBranchInputs =>
        /\ Segments(group.meshes) = Segments(first[1].group.meshes)
        /\ terminalTips = first[1].terminalTips

(***************************************************************************)
(* C24: level cap in buildTree: every child is queued with level = parent  *)
(* level + 1; a built segment with level >= floor(levels) spawns children  *)
(* only when level = floor(levels) and the fractional part of levels is    *)
(* > 0, otherwise it is terminal (its tip is recorded and nothing is       *)
(* queued); so no segment has level > floor(levels) + 1, and none has      *)
(* level > levels when levels is an integer.  The comparisons with         *)
(* floor(levels) are those of the language: none holds when levels is NaN  *)
(* and no level reaches an infinite one.                                   *)
(***************************************************************************)
C24_FloorLevels == MathFloor(params.levels)[1]

C24_Fraction == Minus(params.levels, C24_FloorLevels)

C24_Called == (pc # "idle" \/ run = 2) /\ isFinite(params.levels)

\* one round of the while loop on the branch at the head of the queue
C24_Round ==
    LET branch == Head(queue)
        kids == SubSeq(queue', Len(queue), Len(queue'))
        built == Len(group'.meshes) = Len(group.meshes) + 1
        partial == branch.level = C24_FloorLevels /\ Positive(C24_Fraction)
    IN  /\ \A i \in 1..Len(kids) : kids[i].level = branch.level + 1
        /\ (built /\ branch.level >= C24_FloorLevels) =>
              /\ kids # <<>> => partial
              /\ ~partial =>
                    /\ kids = <<>>
                    /\ terminalTips' = Append(terminalTips, Len(group'.meshes))

C24_Levels ==
    C24_Called =>
        \A b \in {group.meshes[i] : i \in 1..Len(group.meshes)}
                 \cup {queue[i] : i \in 1..Len(queue)} :
            /\ b.level <= C24_FloorLevels + 1
            /\ ~Positive(C24_Fraction) => b.level <= C24_FloorLevels

C24_LevelCap ==
    /\ []C24_Levels
    /\ [][(pc = "loop" /\ safetyIter < SafetyCap /\ isFinite(params.levels))
             => C24_Round]_vars

\* levels is not an integer and a segment one level above floor(levels) was
\* built and recorded as a tip
C24_Witness ==
    /\ pc = "returned" /\ isFinite(params.levels) /\ Positive(C24_Fraction)
    /\ \E i \in 1..Len(group.meshes) :
          /\ group.meshes[i].level = C24_FloorLevels + 1
          /\ i \in {terminalTips[j] : j \in 1..Len(terminalTips)}

(***************************************************************************)
(* C29: on the GrowthParameters that computeGrowth gives for a snapshot,   *)
(* buildTree never reaches the safety cap: levels <= 4 and                 *)
(* round(childrenPerNode) <= 4, at most 1 + 4 + 16 + 64 + 256 = 341        *)
(* segments are taken from the queue, the loop ends with the queue empty,  *)
(* and every built segment that pushes no child is recorded as a terminal  *)
(* tip.                                                                    *)
(***************************************************************************)
C29_FromSnapshot == input.overrideGrowth = <<>> /\ (pc # "idle" \/ run = 2)

C29_Bounded ==
    C29_FromSnapshot =>
        /\ RLe(params.levels, RInt(4))
        /\ RLe(MathRound(params.childrenPerNode), RInt(4))
        /\ safetyIter <= 341
        /\ pc # "diverged"
        /\ pc \in {"after", "returned"} => queue = <<>>

\* a round that builds a segment and pushes nothing records its tip
C29_ChildlessIsTip ==
    (Len(group'.meshes) = Len(group.meshes) + 1 /\ queue' = Tail(queue)) =>
        terminalTips' = Append(terminalTips, Len(group'.meshes))

C29_NeverReachesCap ==
    /\ []C29_Bounded
    /\ [][(pc = "loop" /\ input.overrideGrowth = <<>>) => C29_ChildlessIsTip]_vars

\* the largest tree: 341 segments taken from the queue and built, 256 of them
\* tips, and the queue is empty
C29_Witness ==
    /\ pc = "returned" /\ input.overrideGrowth = <<>>
    /\ params.levels = RInt(4) /\ MathRound(params.childrenPerNode) = RInt(4)
    /\ safetyIter = 341 /\ Len(group.meshes) = 341 /\ Len(terminalTips) = 256
    /\ queue = <<>>

(***************************************************************************)
(* C28: in every state reached from the initial state by ADD_PAGE,         *)
(* ADD_MINUTES, SET_KHATM_PAGE, MEMO_* and RESET, khatms =                 *)
(* floor(totalPages / 604); totalPages and totalMinutes never decrease     *)
(* except by RESET; ADD_PAGE raises totalPages by exactly 1 and leaves     *)
(* totalMinutes, khatmPage and the memo statuses as they were (apart from  *)
(* the decay of a day rollover).                                           *)
(***************************************************************************)
C28_KhatmsOfPages == appState.khatms = appState.totalPages \div 604

C28_NoDecrease ==
    /\ appState'.totalPages >= appState.totalPages
    /\ appState'.totalMinutes >= appState.totalMinutes

C28_AddPageOnly ==
    /\ appState'.totalPages = appState.totalPages + 1
    /\ appState'.totalMinutes = appState.totalMinutes
    /\ appState'.khatmPage = appState.khatmPage
    /\ DOMAIN appState'.memo = DOMAIN appState.memo
    /\ \A k \in DOMAIN appState.memo :
          \/ appState'.memo[k][1].status = appState.memo[k][1].status
          \/ /\ appState.todayDate # today
             /\ appState.memo[k][1].status = "complete"
             /\ appState'.memo[k][1].status = "decayed"

C28_Progress ==
    /\ []C28_KhatmsOfPages
    /\ [][(~resetProgress /\ ~LoadState) => C28_NoDecrease]_vars
    /\ [][addPage => C28_AddPageOnly]_vars

\* the page that completes a khatm was read today, with minutes on the count
\* and a memo entry in place
C28_Witness ==
    /\ appState.totalPages = 604 /\ appState.khatms = 1
    /\ appState.lastReadDate = <<today>>
    /\ appState.totalMinutes > 0
    /\ appState.khatmPage = 2
    /\ 1 \in DOMAIN appState.memo /\ appState.memo[1][1].status = "complete"

(***************************************************************************)
(* C27: in the day-aware reducer dayStreak counts consecutive reading      *)
(* days: a first ADD_PAGE or ADD_MINUTES of a day that follows a reading   *)
(* day raises dayStreak by one (so that it is n after the dispatch of the  *)
(* n-th consecutive day), a further one on the same day leaves it, and the *)
(* first one after a day without reading (or the first ever) leaves        *)
(* dayStreak = 1.                                                          *)
(***************************************************************************)
C27_Reading ==
    \/ addPage
    \/ \E mins \in MinuteInputs : mins > 0 /\ addMinutes(mins)

C27_CountsDay ==
    IF appState.lastReadDate = <<today>>
    THEN appState'.dayStreak = appState.dayStreak
    ELSE IF appState.lastReadDate = <<today - 1>>
    THEN appState'.dayStreak = appState.dayStreak + 1
    ELSE appState'.dayStreak = 1

C27_StreakCountsDays == [][C27_Reading => C27_CountsDay]_vars

\* the part that does hold: the first reading after a day without reading, or
\* the first ever, leaves dayStreak = 1, and dayStreak is never above 1
C27_StreakAfterGap ==
    /\ [](appState.dayStreak \in {0, 1})
    /\ [][(C27_Reading /\ appState.lastReadDate \notin {<<today>>, <<today - 1>>})
            => appState'.dayStreak = 1]_vars

(***************************************************************************)
(* C25: memorization decay in the reducer: at a day rollover (ensureToday) *)
(* every memo entry with status 'complete' whose lastReviewDate is more    *)
(* than 7 whole days before today becomes 'decayed', and every other entry *)
(* (active, reviewed within 7 days, without lastReviewDate) is left as it  *)
(* is; a decayed entry returns to 'active' only through MEMO_REVIEW,       *)
(* MEMO_START or MEMO_VERSE; a decayed entry contributes no fruit.         *)
(***************************************************************************)
\* a dispatch whose ensureToday finds a new day
C25_Rollover ==
    /\ appState.todayDate # today
    /\ addPage \/ \E mins \in MinuteInputs : mins > 0 /\ addMinutes(mins)

C25_Decays(e) ==
    /\ e.status = "complete" /\ e.lastReviewDate # <<>>
    /\ today - e.lastReviewDate[1] > 7

C25_DecayAtRollover ==
    /\ DOMAIN appState'.memo = DOMAIN appState.memo
    /\ \A k \in DOMAIN appState.memo :
          appState'.memo[k] =
              IF C25_Decays(appState.memo[k][1])
              THEN <<[appState.memo[k][1] EXCEPT !.status = "decayed"]>>
              ELSE appState.memo[k]

C25_Revived(k) ==
    /\ k \in DOMAIN appState.memo /\ appState.memo[k][1].status = "decayed"
    /\ k \in DOMAIN appState'.memo /\ appState'.memo[k][1].status = "active"

C25_RevivedByReview ==
    \A k \in Surahs :
        C25_Revived(k) =>
            \/ memoReview(k)
            \/ memoStart(k)
            \/ \E verseNum \in Verses : memoVerse(k, verseNum, TotalVerses)

C25_NoFruitWhileDecayed ==
    \A k \in DOMAIN appState.memo :
        appState.memo[k][1].status = "decayed" =>
            \A i \in 1..Len(computeGrowth(appState).fruits) :
                computeGrowth(appState).fruits[i].surahId # k

C25_MemoDecay ==
    /\ [][C25_Rollover => C25_DecayAtRollover]_vars
    /\ [][C25_RevivedByReview]_vars
    /\ []C25_NoFruitWhileDecayed

\* the two parts that hold: the decay rule at a rollover, and no fruit for a
\* decayed entry
C25_DecayRule ==
    /\ [][C25_Rollover => C25_DecayAtRollover]_vars
    /\ []C25_NoFruitWhileDecayed

(***************************************************************************)
(* C22: frame pacing. A frame callback whose timestamp is less than        *)
(* 1000/30 ms after the last rendered frame leaves the animation clock,    *)
(* the scene and every ref as they are; one that renders has               *)
(* ts - lastRender >= 1000/30 ms, so that two rendered frames are at       *)
(* least 1000/30 ms apart; in both cases the callback schedules one        *)
(* successor, a new one, so skipping a frame does not stop the loop.       *)
(***************************************************************************)
C22_Skipped == Frame /\ sinceRender' # 0

C22_Rendered == Frame /\ sinceRender' = 0

C22_FramePacing ==
    /\ [](renderGap # 0 => renderGap * 30 >= 1000)
    /\ [][C22_Skipped =>
            /\ sinceRender' * 30 < 1000
            /\ UNCHANGED <<timeRef, renderGap, refVars>>]_vars
    /\ [][C22_Rendered =>
            /\ renderGap' * 30 >= 1000
            /\ timeRef' = NextTime(timeRef)]_vars
    /\ [][Frame => (rafPending' # <<>> /\ rafPending' # rafPending)]_vars

\* a frame was rendered, the next callback came 17 ms later and was skipped, and
\* its successor is scheduled
C22_Witness ==
    /\ mounted /\ renderGap # 0
    /\ sinceRender = 17
    /\ rafPending # <<>> /\ rafRef = rafPending

(***************************************************************************)
(* C23: after every rendered frame in which the night elements exist, each *)
(* of the FF_LIGHT_COUNT point lights has the position of its firefly and  *)
(* the intensity 0.45 * max(0, sin(t * 1.8 * speed + blinkPhase)) of that  *)
(* firefly at the time t of the frame; a light has a non-zero intensity    *)
(* only while its firefly is lit; and a step that is not a rendered frame  *)
(* creates the lights with intensity 0 or leaves them as they are, so that *)
(* they stay at 0 until the first frame that updates them.                 *)
(***************************************************************************)
C23_Lights == IF ffLightsRef = <<>> THEN <<>> ELSE ffLightsRef[1]

\* the brightness of firefly i of the current data at time t, in 1/100
C23_Brightness(i, t) ==
    LET d == buildFireflies(fireflyDataRef[1])[i]
        s == SinQ(18 * t * d.speed + d.blinkPhase)
    IN  IF s > 0 THEN s ELSE 0

\* light i is where firefly i is at time t, with 0.45 of its brightness
C23_Follows(l, i, t) ==
    /\ l.position = FireflyPos(buildFireflies(fireflyDataRef[1])[i], t)
    /\ l.intensity * 100 = 45 * C23_Brightness(i, t)

C23_RenderedFrame == Frame /\ timeRef' # timeRef

C23_LightsFollowFireflies ==
    /\ [][(C23_RenderedFrame /\ firefliesRef # <<>> /\ ffLightsRef # <<>>) =>
            /\ Len(ffLightsRef'[1]) = FF_LIGHT_COUNT
            /\ \A i \in 1..FF_LIGHT_COUNT :
                 C23_Follows(ffLightsRef'[1][i], i, timeRef')]_vars
    /\ [](\A i \in 1..Len(C23_Lights) :
            C23_Lights[i].intensity # 0 =>
                /\ firefliesRef # <<>> /\ fireflyDataRef # <<>>
                /\ C23_Brightness(i, timeRef) > 0
                /\ C23_Follows(C23_Lights[i], i, timeRef))
    /\ [][(~C23_RenderedFrame /\ ffLightsRef' # <<>>) =>
            IF ffLightsRef = <<>>
            THEN /\ Len(ffLightsRef'[1]) = FF_LIGHT_COUNT
                 /\ \A i \in 1..FF_LIGHT_COUNT : ffLightsRef'[1][i].intensity = 0
            ELSE ffLightsRef' = ffLightsRef]_vars

\* the night elements exist under a night override while the wall clock reads
\* day, a frame has been rendered: one light is lit with intensity 0.45 at its
\* firefly, another one has been moved to its firefly and is dark as it is
C23_Witness ==
    /\ mounted /\ rafPending # <<>> /\ renderGap # 0
    /\ appliedSky # <<>> /\ appliedSky[1].isNight
    /\ timeOverride # <<>> /\ ~getTimeOfDayConfig(<<>>, clock).isNight
    /\ ffLightsRef # <<>> /\ fireflyDataRef = <<2>>
    /\ \E i, j \in 1..FF_LIGHT_COUNT :
          /\ C23_Lights[i].intensity = 45
          /\ C23_Follows(C23_Lights[i], i, timeRef)
          /\ C23_Lights[i].position # <<0, 0, 0>>
          /\ C23_Lights[j].intensity = 0
          /\ C23_Brightness(j, timeRef) = 0
          /\ C23_Lights[j].position # <<0, 0, 0>>

(***************************************************************************)
(* C21: an exception raised during scene initialisation does not leave     *)
(* onContextCreate; when initialisation has failed, at whatever step, no   *)
(* frame callback is scheduled and nothing is rendered afterwards, and the *)
(* snapshot and time changes that follow do not throw either.              *)
(***************************************************************************)
\* after a failed initialisation the loop has not been started
C21_LoopNeverStarted ==
    initError # <<>> =>
        /\ rafPending = <<>> /\ rafRef = <<>>
        /\ timeRef = 0 /\ renderGap = 0

C21_InitFailureContained ==
    /\ C21_LoopNeverStarted
    /\ ~uncaught

====
